---- MODULE Spec2Model ----
(***************************************************************************)
(* A model of the GAAYATRI chatbot's message intake and safety-gating      *)
(* pipeline: chatbot/services.py (pure helpers) and chatbot/views.py       *)
(* (the chat_api and feedback request handlers).                           *)
(*                                                                         *)
(* Text is modelled by TLA+ strings; Python's `in`, lower() and strip()    *)
(* are computed character by character.                                    *)
(***************************************************************************)
EXTENDS Integers, Sequences, FiniteSets, TLC

VARIABLES
    sessions,   \* ChatSession table: sequence of rows, pk = index
    messages,   \* ChatMessage table: sequence of rows in creation order, pk = index
    cattle,     \* Cattle table (core.models.Cattle): set of rows
    cattle_pk,  \* the last primary key the Cattle table has given out
    web,        \* request.session of each browser session
    last,       \* observation of the last handled request (response and trace)
    call,       \* observation of the last direct call of a pure helper
    embedding   \* embedding_filter.py: module globals and the threads inside it

vars == <<sessions, messages, cattle, cattle_pk, web, last, call, embedding>>

-----------------------------------------------------------------------------
(* Bounds of the model.                                                    *)

\* words per generated message (SpecRefuse)
MaxFragments == 3
\* keys per generated raw context payload (SpecNormalise)
MaxKeys == 2
\* rows of the ChatMessage table (Spec)
MaxMessages == 4
\* rows of the ChatMessage table (SpecGate)
GateMaxMessages == 3

\* Threads that call the semantic classifier concurrently.
MaxThreads == 3

\* Messages a session holds before the request whose history is built.
MaxPrior == 9

\* Primary keys the Cattle table gives out.
MaxCattle == 3

\* Rows of the ChatSession table in SpecErrors.
MaxSessions == 3

-----------------------------------------------------------------------------
(* Python string primitives.                                               *)

\* `term in text` for str operands: substring containment.
Contains(term, text) ==
    \E i \in 1..(Len(text) - Len(term) + 1) :
        SubSeq(text, i, i + Len(term) - 1) = term

UpperToLower ==
    [c \in {"A", "B", "C", "D", "E", "F", "G", "H", "I", "J", "K", "L", "M",
            "N", "O", "P", "Q", "R", "S", "T", "U", "V", "W", "X", "Y", "Z"} |->
        CASE c = "A" -> "a" [] c = "B" -> "b" [] c = "C" -> "c" [] c = "D" -> "d"
          [] c = "E" -> "e" [] c = "F" -> "f" [] c = "G" -> "g" [] c = "H" -> "h"
          [] c = "I" -> "i" [] c = "J" -> "j" [] c = "K" -> "k" [] c = "L" -> "l"
          [] c = "M" -> "m" [] c = "N" -> "n" [] c = "O" -> "o" [] c = "P" -> "p"
          [] c = "Q" -> "q" [] c = "R" -> "r" [] c = "S" -> "s" [] c = "T" -> "t"
          [] c = "U" -> "u" [] c = "V" -> "v" [] c = "W" -> "w" [] c = "X" -> "x"
          [] c = "Y" -> "y" [] c = "Z" -> "z"]

LowerChar(c) == IF c \in DOMAIN UpperToLower THEN UpperToLower[c] ELSE c

\* The i-th character of s, as a string of length 1.
Char(s, i) == SubSeq(s, i, i)

LowerAt(s, i) == LowerChar(Char(s, i))

RECURSIVE LowerRange(_, _, _)
\* The lowered characters lo..hi of s (by halves, to keep the evaluation
\* shallow).
LowerRange(s, lo, hi) ==
    IF lo > hi THEN ""
    ELSE IF lo = hi THEN LowerAt(s, lo)
    ELSE LET mid == (lo + hi) \div 2
         IN  LowerRange(s, lo, mid) \o LowerRange(s, mid + 1, hi)

\* str.lower()
Lower(s) == LowerRange(s, 1, Len(s))

IsSpace(c) == c \in {" ", "\t", "\n", "\r", "\f"}

\* str.strip()
Strip(s) ==
    IF \A i \in 1..Len(s) : IsSpace(Char(s, i)) THEN ""
    ELSE SubSeq(s,
                CHOOSE i \in 1..Len(s) :
                    ~IsSpace(Char(s, i)) /\ \A j \in 1..(i - 1) : IsSpace(Char(s, j)),
                CHOOSE i \in 1..Len(s) :
                    ~IsSpace(Char(s, i)) /\ \A j \in (i + 1)..Len(s) : IsSpace(Char(s, j)))

-----------------------------------------------------------------------------
(* Term lists of chatbot/constants.py.  The file is not part of the        *)
(* sources at hand; the lists below are small representatives of the term  *)
(* classes the specification describes (section 4.1).                      *)

SELF_HARM_TERMS == {"suicide", "end my life", "kill myself"}

VIOLENCE_TERMS == {"kill", "poison", "weapon"}

HUMAN_HEALTH_TERMS == {"fever", "medicine", "chest pain"}

HUMAN_HEALTH_CUES == {"i have", "my fever", "for me"}

BOVINE_CORE_TERMS == {"cow", "buffalo", "calf", "heifer", "bull", "ox"}

CATTLE_KEYWORDS == {"cow", "buffalo", "cattle", "calf", "milk", "mastitis", "fodder"}

GREETING_WORDS == {"hi", "hello", "hey", "namaste"}

\* A word of `words` occurs in `text` as a whole word (regex \b(w1|w2|...)\b
\* over text made of letters and blanks).
WordSearch(words, text) ==
    LET padded == " " \o text \o " "
    IN  \E w \in words : Contains(" " \o w \o " ", padded)

\* GREETING_PATTERN.search(text)
GREETING_PATTERN_search(text) == WordSearch(GREETING_WORDS, text)

\* CATTLE_KEYWORD_PATTERN.search(text)
CATTLE_KEYWORD_PATTERN_search(text) == \E k \in CATTLE_KEYWORDS : Contains(k, text)

-----------------------------------------------------------------------------
(* services.py: the refusal classifier.                                    *)

ANIMAL_NOUNS ==
    {"cow", "buffalo", "cattle", "calf", "heifer", "bull", "livestock", "animal"}

EXPLICIT_SELF_MEDICATION == {"medicine for me", "treatment for me", "i need medicine"}

\* The heuristic without the animal-noun test of line 136.
_has_human_health_intent_nouns_ignored(lowered) ==
    IF \E term \in BOVINE_CORE_TERMS : Contains("my " \o term, lowered) THEN FALSE
    ELSE IF ~ \E term \in HUMAN_HEALTH_TERMS : Contains(term, lowered) THEN FALSE
    ELSE \E cue \in HUMAN_HEALTH_CUES : Contains(cue, lowered)

_has_human_health_intent(lowered) ==
    IF \E term \in BOVINE_CORE_TERMS : Contains("my " \o term, lowered) THEN FALSE
    ELSE IF \E term \in ANIMAL_NOUNS : Contains(term, lowered) THEN FALSE
    ELSE IF ~ \E term \in HUMAN_HEALTH_TERMS : Contains(term, lowered) THEN FALSE
    ELSE \E cue \in HUMAN_HEALTH_CUES : Contains(cue, lowered)

\* A classifier whose self-harm check sits inside the no-context branch.
should_refuse_selfharm_gated(message, has_cattle_context) ==
    LET lowered == Lower(message)
    IN  IF ~has_cattle_context
        THEN IF \E term \in SELF_HARM_TERMS : Contains(term, lowered) THEN "self_harm"
             ELSE IF \E term \in VIOLENCE_TERMS : Contains(term, lowered) THEN "violence"
             ELSE IF _has_human_health_intent(lowered) THEN "human_health"
             ELSE IF \E p \in EXPLICIT_SELF_MEDICATION : Contains(p, lowered)
                  THEN "human_health"
             ELSE "None"
        ELSE "None"

\* A classifier that never reads has_cattle_context.
should_refuse_context_blind(message, has_cattle_context) ==
    LET lowered == Lower(message)
    IN  IF \E term \in SELF_HARM_TERMS : Contains(term, lowered) THEN "self_harm"
        ELSE IF \E term \in VIOLENCE_TERMS : Contains(term, lowered) THEN "violence"
        ELSE IF _has_human_health_intent(lowered) THEN "human_health"
        ELSE IF \E p \in EXPLICIT_SELF_MEDICATION : Contains(p, lowered)
             THEN "human_health"
        ELSE "None"

\* should_refuse(message, has_cattle_context) -> reason or "None"
should_refuse(message, has_cattle_context) ==
    LET lowered == Lower(message)
    IN  IF \E term \in SELF_HARM_TERMS : Contains(term, lowered) THEN "self_harm"
        ELSE IF ~has_cattle_context
        THEN IF \E term \in VIOLENCE_TERMS : Contains(term, lowered) THEN "violence"
             ELSE IF _has_human_health_intent(lowered) THEN "human_health"
             ELSE IF \E p \in EXPLICIT_SELF_MEDICATION : Contains(p, lowered)
                  THEN "human_health"
             ELSE "None"
        ELSE "None"

matches_greeting(text) == GREETING_PATTERN_search(Lower(text))

keyword_match(lowered) == CATTLE_KEYWORD_PATTERN_search(lowered)

-----------------------------------------------------------------------------
(* services.py: beautify_reply and the fixed replies.                      *)

CollapseAt(s, i) ==
    IF Char(s, i) \in {" ", "\t"}
    THEN IF i < Len(s) /\ Char(s, i + 1) \in {" ", "\t"} THEN "" ELSE " "
    ELSE Char(s, i)

RECURSIVE CollapseRange(_, _, _)
\* The characters lo..hi of s with every run of blanks collapsed (by halves).
CollapseRange(s, lo, hi) ==
    IF lo > hi THEN ""
    ELSE IF lo = hi THEN CollapseAt(s, lo)
    ELSE LET mid == (lo + hi) \div 2
         IN  CollapseRange(s, lo, mid) \o CollapseRange(s, mid + 1, hi)

\* re.sub(r"[ \t]+", " ", text)
CollapseBlanks(s) == CollapseRange(s, 1, Len(s))

\* The last index of the run of characters of `chars` that starts at i.
RunEnd(s, i, chars) ==
    CHOOSE j \in i..Len(s) :
        /\ \A k \in i..j : Char(s, k) \in chars
        /\ j = Len(s) \/ Char(s, j + 1) \notin chars

RECURSIVE PiecesFrom(_, _, _)
\* The pieces of s from index `from` on that lie between the index intervals
\* of `cuts` (pairs <<first, last>>), in order.
PiecesFrom(s, from, cuts) ==
    IF cuts = {} THEN <<SubSeq(s, from, Len(s))>>
    ELSE LET c == CHOOSE c \in cuts : \A d \in cuts : c[1] <= d[1]
         IN  <<SubSeq(s, from, c[1] - 1)>> \o PiecesFrom(s, c[2] + 1, cuts \ {c})

\* re.split(r"\n{2,}", text)
SplitParagraphs(s) ==
    LET starts == {i \in 1..(Len(s) - 1) :
                      /\ Char(s, i) = "\n" /\ Char(s, i + 1) = "\n"
                      /\ (i = 1 \/ Char(s, i - 1) # "\n")}
    IN  PiecesFrom(s, 1, {<<i, RunEnd(s, i, {"\n"})>> : i \in starts})

\* re.split(r"(?<=[.!?])\s+", paragraph)
SplitSentences(s) ==
    LET starts == {i \in 2..Len(s) :
                      IsSpace(Char(s, i)) /\ Char(s, i - 1) \in {".", "!", "?"}}
    IN  PiecesFrom(s, 1, {<<i, RunEnd(s, i, {" ", "\t", "\n", "\r", "\f"})>> : i \in starts})

RECURSIVE StripAll(_)
\* [p.strip() for p in pieces if p.strip()]
StripAll(pieces) ==
    IF Len(pieces) = 0 THEN << >>
    ELSE LET p == Strip(Head(pieces))
         IN  (IF p = "" THEN << >> ELSE <<p>>) \o StripAll(Tail(pieces))

RECURSIVE Join(_, _)
\* sep.join(parts)
Join(sep, parts) ==
    IF Len(parts) = 0 THEN ""
    ELSE IF Len(parts) = 1 THEN Head(parts)
    ELSE Head(parts) \o sep \o Join(sep, Tail(parts))

FormatParagraph(paragraph) ==
    LET sentences == StripAll(SplitSentences(paragraph))
    IN  IF Len(sentences) <= 1 THEN paragraph
        ELSE Join("\n", <<Head(sentences)>> \o
                        [i \in 1..(Len(sentences) - 1) |-> "- " \o sentences[i + 1]])

\* beautify_reply(text)
beautify_reply(text) ==
    LET stripped == Strip(text)
    IN  IF stripped = "" THEN stripped
        ELSE LET paragraphs == StripAll(SplitParagraphs(CollapseBlanks(stripped)))
                 formatted == [i \in 1..Len(paragraphs) |-> FormatParagraph(paragraphs[i])]
             IN  IF Len(formatted) > 0 THEN Join("\n\n", formatted) ELSE CollapseBlanks(stripped)

REFUSAL_BASE == "I'm here to support Indian dairy farmers with cattle care and management."

REFUSAL_HUMAN_HEALTH ==
    beautify_reply(REFUSAL_BASE \o " I can't provide advice on human medical concerns. Please speak with a qualified doctor or your local health helpline for assistance.")

REFUSAL_SELF_HARM ==
    beautify_reply(REFUSAL_BASE \o " It sounds like you may need urgent help. Contact local emergency services, a trusted person, or a mental health professional immediately.")

REFUSAL_VIOLENCE ==
    beautify_reply(REFUSAL_BASE \o " I can't assist with harmful or illegal actions. Please stay safe and reach out to the appropriate authorities if needed.")

REFUSAL_OTHER ==
    beautify_reply(REFUSAL_BASE \o " Let's focus on bovine health, nutrition, reproduction, housing, or dairy farm management queries.")

\* build_refusal_reply(reason)
build_refusal_reply(reason) ==
    CASE reason = "human_health" -> REFUSAL_HUMAN_HEALTH
      [] reason = "self_harm" -> REFUSAL_SELF_HARM
      [] reason = "violence" -> REFUSAL_VIOLENCE
      [] OTHER -> REFUSAL_OTHER

\* The scope-narrowing reply of chat_api.
SCOPE_REPLY ==
    beautify_reply("I'm focused on dairy cattle support. Choose one of your saved animals or share breed, age, milk yield, and current symptoms so I can guide you better.")

-----------------------------------------------------------------------------
(* Generated messages: up to MaxFragments fragments joined by blanks.      *)

Fragments ==
    {"Hello", "my", "cow", "ox", "I have", "fever", "End My Life", "kill",
     "i need medicine", "tractor"}

RECURSIVE MessagesOf(_)
MessagesOf(n) ==
    IF n = 0 THEN {}
    ELSE IF n = 1 THEN Fragments
    ELSE LET shorter == MessagesOf(n - 1)
         IN  shorter \cup {m \o " " \o f : m \in shorter, f \in Fragments}

Messages == MessagesOf(MaxFragments)

HasSelfHarmTerm(message) == \E term \in SELF_HARM_TERMS : Contains(term, Lower(message))

-----------------------------------------------------------------------------
(* Python values of a JSON payload.  Every value is a record of one shape: *)
(* t is the Python type, s the text of a str (or the str() of a list), n   *)
(* the number of an int or bool, or of a float in units of 1/FloatScale.   *)

FloatScale == 100 * 1000

PyNone == [t |-> "none", s |-> "", n |-> 0]
PyStr(s) == [t |-> "str", s |-> s, n |-> 0]
PyInt(n) == [t |-> "int", s |-> "", n |-> n]
PyFloat(n) == [t |-> "float", s |-> "", n |-> n]
\* float("inf"): what json.loads gives for Infinity or for 1e999
PyInf == [t |-> "float", s |-> "inf", n |-> 0]
PyBool(b) == [t |-> "bool", s |-> "", n |-> IF b THEN 1 ELSE 0]
PyList(repr) == [t |-> "list", s |-> repr, n |-> 0]

\* The number a numeric value stands for, in units of 1/FloatScale.
Scaled(v) == IF v.t = "float" THEN v.n ELSE v.n * FloatScale

\* a == b for two Python values (int, float and bool compare by number).
PyEq(a, b) ==
    IF a.t \in {"int", "float", "bool"} /\ b.t \in {"int", "float", "bool"}
    THEN Scaled(a) = Scaled(b)
    ELSE a = b

\* d1 == d2 for two dicts.
PyDictEq(d1, d2) ==
    /\ DOMAIN d1 = DOMAIN d2
    /\ \A k \in DOMAIN d1 : PyEq(d1[k], d2[k])

\* `value in (None, "")`
IsNoneOrEmpty(v) == v.t = "none" \/ (v.t = "str" /\ v.s = "")

\* bool(value)
Truthy(v) ==
    CASE v.t = "none" -> FALSE
      [] v.t = "str" -> v.s # ""
      [] v.t = "list" -> v.s # "[]"
      [] OTHER -> v.n # 0

EmptyDict == [k \in {} |-> PyNone]

Digits == {"0", "1", "2", "3", "4", "5", "6", "7", "8", "9"}

DigitValue(c) ==
    CASE c = "0" -> 0 [] c = "1" -> 1 [] c = "2" -> 2 [] c = "3" -> 3 [] c = "4" -> 4
      [] c = "5" -> 5 [] c = "6" -> 6 [] c = "7" -> 7 [] c = "8" -> 8 [] c = "9" -> 9

DigitChar(d) == SubSeq("0123456789", d + 1, d + 1)

AllDigits(s) == \A i \in 1..Len(s) : Char(s, i) \in Digits

RECURSIVE DigitsValue(_)
DigitsValue(s) ==
    IF Len(s) = 0 THEN 0
    ELSE DigitsValue(SubSeq(s, 1, Len(s) - 1)) * 10 + DigitValue(SubSeq(s, Len(s), Len(s)))

RECURSIVE Pow10(_)
Pow10(k) == IF k = 0 THEN 1 ELSE 10 * Pow10(k - 1)

DotAt(s) == {i \in 1..Len(s) : Char(s, i) = "."}

\* float(str): surrounding blanks stripped, then plain decimal notation
\* (digits with at most one point); anything else raises ValueError.
\* Fraction digits beyond the fifth are below the model's resolution.
ParseFloat(s) ==
    LET body == Strip(s)
        dots == DotAt(body)
        dot == IF dots = {} THEN Len(body) + 1 ELSE CHOOSE i \in dots : \A j \in dots : i <= j
        whole == SubSeq(body, 1, dot - 1)
        frac == SubSeq(body, dot + 1, Len(body))
        frac5 == SubSeq(frac, 1, IF Len(frac) < 5 THEN Len(frac) ELSE 5)
        ok == /\ AllDigits(whole) /\ AllDigits(frac)
              /\ Len(whole) + Len(frac) > 0
    IN  IF ok
        THEN [ok |-> TRUE,
              n |-> DigitsValue(whole) * FloatScale
                    + DigitsValue(frac5) * Pow10(5 - Len(frac5))]
        ELSE [ok |-> FALSE, n |-> 0]

\* float(value): str is parsed, int/bool/float convert, None and list raise TypeError.
ToFloat(v) ==
    CASE v.t = "str" -> ParseFloat(v.s)
      [] v.t \in {"int", "bool", "float"} -> [ok |-> TRUE, n |-> Scaled(v)]
      [] OTHER -> [ok |-> FALSE, n |-> 0]

\* round(number, 2) of a non-negative number that is not a tie.
Round2(n) == ((n + 500) \div 1000) * 1000

RECURSIVE IntToStr(_)
\* str(int)
IntToStr(n) ==
    IF n < 0 THEN "-" \o IntToStr(0 - n)
    ELSE IF n < 10 THEN DigitChar(n)
    ELSE IntToStr(n \div 10) \o DigitChar(n % 10)

RECURSIVE DropTrailingZeros(_)
DropTrailingZeros(s) ==
    IF Len(s) > 1 /\ SubSeq(s, Len(s), Len(s)) = "0"
    THEN DropTrailingZeros(SubSeq(s, 1, Len(s) - 1))
    ELSE s

\* str(float) of a non-negative float: 12.5 -> "12.5", 6.0 -> "6.0"
FloatToStr(n) ==
    LET frac == n % FloatScale
        padded == IntToStr(FloatScale + frac)
    IN  IntToStr(n \div FloatScale) \o "." \o DropTrailingZeros(SubSeq(padded, 2, Len(padded)))

\* str(value)
ToStr(v) ==
    CASE v.t = "str" -> v.s
      [] v.t = "int" -> IntToStr(v.n)
      [] v.t = "float" -> FloatToStr(v.n)
      [] v.t = "bool" -> IF v.n = 1 THEN "True" ELSE "False"
      [] v.t = "none" -> "None"
      [] v.t = "list" -> v.s

-----------------------------------------------------------------------------
(* services.py: normalise_context.                                         *)

allowed_keys ==
    {"source", "animal_id", "name", "tag_number", "breed", "age_years", "milk_yield",
     "issue", "notes", "lactation_stage", "last_vaccination_date", "is_sick"}

numeric_keys == {"age_years", "milk_yield"}

boolean_keys == {"is_sick"}

TRUTHY_TOKENS == {"1", "true", "yes", "y"}

\* One pass of the loop body for (key, value): whether the key is stored in
\* `cleaned`, and with which value.
NormaliseItem(key, value) ==
    IF key \notin allowed_keys \/ IsNoneOrEmpty(value)
    THEN [keep |-> FALSE, value |-> PyNone]
    ELSE IF key \in numeric_keys
    THEN LET number == ToFloat(value)
         IN  IF ~number.ok THEN [keep |-> FALSE, value |-> PyNone]
             ELSE IF number.n % FloatScale = 0
             THEN [keep |-> TRUE, value |-> PyInt(number.n \div FloatScale)]
             ELSE [keep |-> TRUE, value |-> PyFloat(Round2(number.n))]
    ELSE IF key \in boolean_keys
    THEN IF value.t = "bool" THEN [keep |-> TRUE, value |-> value]
         ELSE [keep |-> TRUE,
               value |-> PyBool(Lower(Strip(ToStr(value))) \in TRUTHY_TOKENS)]
    ELSE IF value.t \in {"int", "float", "bool"}
    THEN [keep |-> TRUE, value |-> value]
    ELSE [keep |-> TRUE, value |-> PyStr(Strip(ToStr(value)))]

\* A request payload's "context": a JSON object (dict) or any other JSON value.
RawDict(items) == [dict |-> TRUE, items |-> items]
RawOther == [dict |-> FALSE, items |-> EmptyDict]

\* normalise_context(raw) -> dict
normalise_context(raw) ==
    IF ~raw.dict THEN EmptyDict
    ELSE LET kept == {k \in DOMAIN raw.items : NormaliseItem(k, raw.items[k]).keep}
             cleaned == [k \in kept |-> NormaliseItem(k, raw.items[k]).value]
         IN  IF kept # {} /\ "source" \notin kept
             THEN [k \in kept \cup {"source"} |->
                      IF k = "source" THEN PyStr("manual") ELSE cleaned[k]]
             ELSE cleaned

-----------------------------------------------------------------------------
(* services.py: augment_context_with_cattle.                               *)

\* int(value): str is parsed (blanks stripped, an optional sign, decimal
\* digits), float is truncated towards zero, bool is 0 or 1; None and list
\* raise TypeError.
ToInt(v) ==
    CASE v.t = "str" ->
            LET body == Strip(v.s)
                signed == Len(body) > 0 /\ Char(body, 1) \in {"-", "+"}
                digits == IF signed THEN SubSeq(body, 2, Len(body)) ELSE body
            IN  IF Len(digits) > 0 /\ AllDigits(digits)
                THEN [ok |-> TRUE,
                      n |-> IF signed /\ Char(body, 1) = "-"
                            THEN 0 - DigitsValue(digits) ELSE DigitsValue(digits)]
                ELSE [ok |-> FALSE, n |-> 0]
      [] v.t \in {"int", "bool"} -> [ok |-> TRUE, n |-> v.n]
      [] v.t = "float" ->
            [ok |-> TRUE,
             n |-> IF v.n >= 0 THEN v.n \div FloatScale
                   ELSE 0 - ((0 - v.n) \div FloatScale)]
      [] OTHER -> [ok |-> FALSE, n |-> 0]

\* d[key] = value
Put(d, key, value) ==
    [k \in DOMAIN d \cup {key} |-> IF k = key THEN value ELSE d[k]]

\* d.setdefault(key, value)
SetDefault(d, key, value) == IF key \in DOMAIN d THEN d ELSE Put(d, key, value)

\* d.pop(key, None)
Pop(d, key) == [k \in DOMAIN d \ {key} |-> d[k]]

\* for key, value in list(d.items()): if value in (None, ""): d.pop(key)
Prune(d) == [k \in {x \in DOMAIN d : ~IsNoneOrEmpty(d[x])} |-> d[k]]

\* A lookup of the animal that does not filter by owner.
CattleByPkOnly(db, animal_pk, user) ==
    {c \in db : c.pk = animal_pk}

\* Cattle.objects.get(pk=animal_pk, owner=user): the matching rows (none
\* when the lookup raises DoesNotExist).
CattleOwnedBy(db, animal_pk, user) ==
    {c \in db : c.pk = animal_pk /\ c.owner = user}

\* The fields copied from a found animal record (lines 274-287).
EnrichFrom(enriched, cattle_obj) ==
    LET e1 == Put(enriched, "animal_id", PyInt(cattle_obj.pk))
        e2 == Put(e1, "source", PyStr("saved"))
        e3 == SetDefault(e2, "name", cattle_obj.name)
        e4 == SetDefault(e3, "tag_number", cattle_obj.tag_number)
        e5 == SetDefault(e4, "breed", cattle_obj.breed)
        e6 == SetDefault(e5, "age_years", cattle_obj.age_years)
        milk == ToFloat(cattle_obj.daily_milk_yield)
        e7 == IF ~IsNoneOrEmpty(cattle_obj.daily_milk_yield) /\ milk.ok
              THEN SetDefault(e6, "milk_yield",
                              IF milk.n % FloatScale = 0
                              THEN PyInt(milk.n \div FloatScale)
                              ELSE PyFloat(Round2(milk.n)))
              ELSE e6
    IN  IF Truthy(cattle_obj.last_vaccination_date)
        THEN SetDefault(e7, "last_vaccination_date", cattle_obj.last_vaccination_date)
        ELSE e7

\* Lines 263-267: int(animal_id) of an infinite float raises OverflowError,
\* which the handler for TypeError and ValueError does not catch.
augment_raises(context) ==
    /\ "animal_id" \in DOMAIN context
    /\ context["animal_id"] = PyInf

\* augment_context_with_cattle(user, context) over the Cattle table db
augment_context_with_cattle(db, user, context) ==
    IF DOMAIN context = {} THEN EmptyDict
    ELSE LET animal_id == IF "animal_id" \in DOMAIN context
                          THEN context["animal_id"] ELSE PyNone
             parsed == ToInt(animal_id)
             animal_pk == IF ~IsNoneOrEmpty(animal_id) /\ parsed.ok THEN parsed.n ELSE 0
             found == IF animal_pk # 0 THEN CattleOwnedBy(db, animal_pk, user) ELSE {}
         IN  IF found # {}
             THEN Prune(EnrichFrom(context, CHOOSE c \in found : TRUE))
             ELSE Prune(Pop(context, "animal_id"))

-----------------------------------------------------------------------------
(* services.py: context_summary, greeting_for_context, get_location_label. *)

\* ctx.get(key), None when absent
Get(ctx, key) == IF key \in DOMAIN ctx THEN ctx[key] ELSE PyNone

\* context_summary(ctx)
context_summary(ctx) ==
    IF DOMAIN ctx = {} THEN ""
    ELSE Join(", ",
           (IF Truthy(Get(ctx, "name")) THEN <<ToStr(ctx["name"])>> ELSE << >>)
        \o (IF Truthy(Get(ctx, "breed")) THEN <<ToStr(ctx["breed"]) \o " breed">> ELSE << >>)
        \o (IF Truthy(Get(ctx, "age_years"))
            THEN <<ToStr(ctx["age_years"]) \o " years old">> ELSE << >>)
        \o (IF Truthy(Get(ctx, "milk_yield"))
            THEN <<ToStr(ctx["milk_yield"]) \o " L/day">> ELSE << >>)
        \o (IF Truthy(Get(ctx, "issue")) THEN <<"Issue: " \o ToStr(ctx["issue"])>> ELSE << >>)
        \o (IF Truthy(Get(ctx, "lactation_stage"))
            THEN <<"Stage: " \o ToStr(ctx["lactation_stage"])>> ELSE << >>))

GREETING_WELCOME ==
    "Namaste! I'm GAAYATRI's dairy assistant. Ask me about cow or buffalo health, milk yield, nutrition, breeding, or daily management."

GREETING_PLAIN == beautify_reply(GREETING_WELCOME)

\* greeting_for_context(context)
greeting_for_context(context) ==
    LET summary == context_summary(context)
    IN  IF summary # ""
        THEN beautify_reply("Namaste! I see we're discussing " \o summary \o ". "
                            \o GREETING_WELCOME)
        ELSE GREETING_PLAIN

\* DEFAULT_LOCATION_LABEL of chatbot/constants.py
DEFAULT_LOCATION_LABEL == "India"

\* INDIA_KEYWORDS of chatbot/constants.py: the spellings of the country.
INDIA_KEYWORDS == {"india", "in", "bharat"}

\* The address of the client in the requests of the model (the address of
\* chatbot/tests.py).
CLIENT_IP == "203.0.113.24"

RECURSIVE Remove(_, _)
\* text with every occurrence of pattern removed, left to right
Remove(pattern, text) ==
    IF ~Contains(pattern, text) THEN text
    ELSE LET i == CHOOSE k \in 1..Len(text) :
                      /\ SubSeq(text, k, k + Len(pattern) - 1) = pattern
                      /\ \A j \in 1..(k - 1) : SubSeq(text, j, j + Len(pattern) - 1) # pattern
         IN  SubSeq(text, 1, i - 1) \o
             Remove(pattern, SubSeq(text, i + Len(pattern), Len(text)))

\* IP_PATTERN.sub("", text), IP_PATTERN of chatbot/constants.py: the
\* addresses in a text are removed; the client's address stands for them.
IP_PATTERN_sub(text) == Remove(CLIENT_IP, text)

IsLetter(c) == LowerChar(c) \in {UpperToLower[u] : u \in DOMAIN UpperToLower}

UpperChar(c) ==
    IF \E u \in DOMAIN UpperToLower : UpperToLower[u] = c
    THEN CHOOSE u \in DOMAIN UpperToLower : UpperToLower[u] = c
    ELSE c

RECURSIVE MapChars(_, _)
\* What lines 41-43 make of character i of text, before blanks collapse:
\* anything but a letter, a comma or white space becomes a blank, white
\* space becomes a blank.
MapChars(text, i) ==
    IF i > Len(text) THEN ""
    ELSE (IF IsLetter(Char(text, i)) \/ Char(text, i) = "," THEN Char(text, i) ELSE " ")
         \o MapChars(text, i + 1)

RECURSIVE TitleFrom(_, _)
\* str.title(): a letter after a non-letter is upper case, any other lower.
TitleFrom(text, i) ==
    IF i > Len(text) THEN ""
    ELSE (IF i = 1 \/ ~IsLetter(Char(text, i - 1))
          THEN UpperChar(Char(text, i)) ELSE LowerChar(Char(text, i)))
         \o TitleFrom(text, i + 1)

\* _clean_location_fragment(value) for a str or None
_clean_location_fragment(value) ==
    IF value \in {"None", "", "unknown"} THEN ""
    ELSE TitleFrom(Strip(CollapseBlanks(MapChars(IP_PATTERN_sub(value), 1))), 1)

\* _first_match(data, *keys)
_first_match(data, keys) ==
    LET hits == {i \in 1..Len(keys) :
                    keys[i] \in DOMAIN data /\ _clean_location_fragment(data[keys[i]]) # ""}
    IN  IF hits = {} THEN ""
        ELSE _clean_location_fragment(data[keys[CHOOSE i \in hits : \A j \in hits : i <= j]])

RECURSIVE SplitOn(_, _)
\* text.split(sep) for a one-character sep
SplitOn(sep, text) ==
    IF ~Contains(sep, text) THEN <<text>>
    ELSE LET i == CHOOSE k \in 1..Len(text) :
                      Char(text, k) = sep /\ \A j \in 1..(k - 1) : Char(text, j) # sep
         IN  <<SubSeq(text, 1, i - 1)>> \o SplitOn(sep, SubSeq(text, i + 1, Len(text)))

NoPlace == [country |-> "", state |-> "", district |-> ""]

\* _parse_geo_payload(payload) for a JSON object of strings (kind "dict")
\* and for a text (kind "str"); any other payload names no place.
_parse_geo_payload(payload) ==
    CASE payload.kind = "dict" ->
            [country |-> _first_match(payload.data, <<"country", "country_name", "countryName",
                                                      "country_code", "countryCode">>),
             state |-> _first_match(payload.data, <<"state", "state_name", "region",
                                                    "region_name", "province">>),
             district |-> _first_match(payload.data, <<"district", "city", "city_name",
                                                       "locality", "town">>)]
      [] payload.kind = "str" ->
            LET cleaned == _clean_location_fragment(payload.text)
                pieces == StripAll(SplitOn(",", cleaned))
                n == Len(pieces)
            IN  IF cleaned = "" THEN NoPlace
                ELSE IF n >= 3
                     THEN [country |-> pieces[n], state |-> pieces[n - 1],
                           district |-> pieces[n - 2]]
                ELSE IF n = 2
                     THEN [country |-> pieces[2], state |-> pieces[1], district |-> ""]
                ELSE [country |-> pieces[1], state |-> "", district |-> ""]
      [] OTHER -> NoPlace

\* _format_location_label(parsed)
_format_location_label(parsed) ==
    IF Lower(Strip(parsed.country)) \notin INDIA_KEYWORDS THEN DEFAULT_LOCATION_LABEL
    ELSE LET district == Strip(parsed.district)
             state == Strip(parsed.state)
             d == IF district # "" /\ Lower(district) \notin INDIA_KEYWORDS
                  THEN <<district>> ELSE << >>
             st == IF state # "" /\ Lower(state) \notin INDIA_KEYWORDS /\ <<state>> # d
                   THEN <<state>> ELSE << >>
             india == IF <<"India">> = d \/ <<"India">> = st THEN << >> ELSE <<"India">>
         IN  Join(", ", d \o st \o india)

\* The geo lookup of a request: no endpoint is configured, the request
\* raises, the answer is not ok, or the answer carries a payload.
GeoUnconfigured == [outcome |-> "unconfigured", payload |-> [kind |-> "none"]]
GeoRaises == [outcome |-> "raised", payload |-> [kind |-> "none"]]
GeoNotOk == [outcome |-> "not_ok", payload |-> [kind |-> "none"]]
GeoAnswers(payload) == [outcome |-> "ok", payload |-> payload]

\* A cache that is never read.
get_location_label_uncached(cached, geo) ==
    IF geo.outcome = "ok"
    THEN _format_location_label(_parse_geo_payload(geo.payload))
    ELSE DEFAULT_LOCATION_LABEL

\* get_location_label(request): the cached label if there is one; else the
\* label of the lookup's payload when an endpoint is configured and answers
\* ok, and the default label in every other case.  The label returned is
\* the label cached from then on (lines 121-122, 127-128).
get_location_label(cached, geo) ==
    IF cached # "" THEN cached
    ELSE IF geo.outcome = "ok"
         THEN _format_location_label(_parse_geo_payload(geo.payload))
         ELSE DEFAULT_LOCATION_LABEL

-----------------------------------------------------------------------------
(* services.py: call_groq_sync.  `upstream` is what the HTTP exchange of   *)
(* lines 395-397 does: the transport fails, the server answers with an     *)
(* error status, or it answers 200 with a body.                            *)

\* Statuses of the upstream's error answers.
HttpErrorStatuses == {401, 429, 503}

\* The error codes of the taxonomy.
GroqErrorCodes ==
    {"config_missing", "request_failed", "empty_response"}
    \cup {"http_" \o IntToStr(st) : st \in HttpErrorStatuses}

\* GroqResponse(reply, error_code), returned to the caller
GroqResponse(reply, error_code) ==
    [reply |-> reply, error_code |-> error_code, raised |-> "None"]

\* An exception that leaves call_groq_sync (no GroqResponse is returned).
GroqRaises(exception) ==
    [reply |-> "None", error_code |-> "None", raised |-> exception]

\* ", ".join(parts) of context_summary raises TypeError when ctx["name"], a
\* part appended as it is (line 302), is truthy and not a str.
context_summary_raises(ctx) ==
    Truthy(Get(ctx, "name")) /\ Get(ctx, "name").t # "str"

\* context["issue"].lower() of line 381 raises AttributeError when the issue
\* is truthy and not a str.
issue_lower_raises(context) ==
    Truthy(Get(context, "issue")) /\ Get(context, "issue").t # "str"

\* Lines 380-382: the content of the final user entry of the payload, for a
\* context whose issue is absent, falsy or a str.
user_prompt(message, context) ==
    IF Truthy(Get(context, "issue"))
       /\ ~Contains(Lower(context["issue"].s), Lower(message))
    THEN "Issue: " \o context["issue"].s \o ". Question: " \o message
    ELSE message

\* Line 407: data.get("choices", [{}])[0].get("message", {}).get("content")
\* over a 200 body; "None" stands for None.
ChoicesContent(body) ==
    CASE body.json # "object" -> GroqRaises("AttributeError")
      [] body.choices = "absent" -> GroqResponse("None", "None")
      [] body.choices = "null" -> GroqRaises("TypeError")
      [] body.choices = "empty" -> GroqRaises("IndexError")
      [] body.choices = "string_item" -> GroqRaises("AttributeError")
      [] body.message = "absent" -> GroqResponse("None", "None")
      [] body.message = "null" -> GroqRaises("AttributeError")
      [] OTHER -> GroqResponse(body.content, "None")

\* Lines 407-413: the reply extracted from the body of a 200 response.
ExtractReply(body) ==
    LET first == ChoicesContent(body)
        top == IF body.reply \notin {"None", ""} THEN body.reply ELSE body.text
    IN  IF first.raised # "None" THEN first
        ELSE IF first.reply \notin {"None", ""} THEN GroqResponse(first.reply, "None")
        ELSE IF top \notin {"None", ""} THEN GroqResponse(top, "None")
        ELSE GroqResponse("None", "empty_response")

\* Lines 394-405: the exchange and its except clauses.
Exchange(upstream) ==
    CASE upstream.kind = "transport_error" -> GroqResponse("None", "request_failed")
      [] upstream.kind = "http_error" ->
            GroqResponse("None", "http_" \o IntToStr(upstream.status))
      [] upstream.body.json = "invalid" -> GroqResponse("None", "request_failed")
      [] OTHER -> ExtractReply(upstream.body)

\* call_groq_sync(message, session_id, location=..., context=...) with
\* settings.CHATBOT_API_KEY = api_key ("" when unset)
call_groq_sync(api_key, message, context, upstream) ==
    IF api_key = "" THEN GroqResponse("None", "config_missing")
    ELSE IF context_summary_raises(context) THEN GroqRaises("TypeError")
    ELSE IF issue_lower_raises(context) THEN GroqRaises("AttributeError")
    ELSE Exchange(upstream)

-----------------------------------------------------------------------------
(* State.                                                                  *)

Farmers == {"u1", "u2"}

\* u3 is a logged-in user without the farmer role: a doctor.
Doctors == {"u3"}

Users == Farmers \cup Doctors

WebSessions == {"w1"}

NoCall == [op |-> "none"]
NoRequest == [op |-> "none"]

\* The registered animals: Gauri of u1 (the record of chatbot/tests.py) and
\* an animal of u2.
InitCattle ==
    {[pk |-> 1, owner |-> "u1", name |-> PyStr("Gauri"), tag_number |-> PyStr("T-101"),
      breed |-> PyStr("Gir"), age_years |-> PyInt(5),
      daily_milk_yield |-> PyFloat(1250000), last_vaccination_date |-> PyNone],
     [pk |-> 2, owner |-> "u2", name |-> PyStr("Tulsi"), tag_number |-> PyStr("T-202"),
      breed |-> PyStr("Jersey"), age_years |-> PyNone,
      daily_milk_yield |-> PyNone, last_vaccination_date |-> PyStr("2024-01-15")]}

Threads == 1..MaxThreads

\* None, and the lock nobody holds.  A loaded object is By(t), t the thread
\* that created it; a held lock is By(t), t its holder.
Unset == {}

By(t) == {t}

\* embedding_filter.py lines 37-39: nothing is loaded and the lock is free;
\* no thread is inside is_cattle_related.  `contended` remembers the threads
\* that found _model unset at line 45.
InitEmbedding ==
    [_model |-> Unset, _topic_embeddings |-> Unset, _model_lock |-> Unset,
     pc |-> [t \in Threads |-> "idle"], constructed |-> 0, encoded |-> 0,
     contended |-> {}]

InitDb ==
    /\ sessions = << >>
    /\ messages = << >>
    /\ cattle = InitCattle
    /\ cattle_pk = 2
    /\ web = [w \in WebSessions |-> [chatbot_session_id |-> 0, location |-> ""]]
    /\ last = NoRequest
    /\ embedding = InitEmbedding

Init ==
    /\ InitDb
    /\ call = NoCall

-----------------------------------------------------------------------------
(* Request inputs.  The pure helpers are tabulated over them once, so that *)
(* a handler step looks a value up instead of scanning the text again;     *)
(* every table entry is the helper's own value.                            *)

\* Raw "message" fields of request bodies: Spec uses the first three, SpecGate all.
SessionMessages == {"  ", "Hello", "tractor price "}

GateMessages ==
    SessionMessages \cup
    {"Hello I want to end my life", "I want to end my life", "how to poison rats",
     "how to poison a cow", "I have fever", "My cow has fever",
     "My cow died I want to end my life"}

ContextMastitis ==
    RawDict([k \in {"animal_id", "issue"} |->
                IF k = "animal_id" THEN PyStr("1") ELSE PyStr("Mastitis")])

ContextTulsi ==
    RawDict([k \in {"name", "breed", "age_years"} |->
                CASE k = "name" -> PyStr("Tulsi") [] k = "breed" -> PyStr("Jersey")
                  [] k = "age_years" -> PyInt(4)])

\* Raw "context" fields of request bodies: absent, a saved animal, a manual entry.
RequestContexts == {RawOther, ContextMastitis, ContextTulsi}

\* {"animal_id": 1e999}: json.loads reads the number as float("inf").
ContextOverflow == RawDict([k \in {"animal_id"} |-> PyInf])

AllContexts == RequestContexts \cup {ContextOverflow}

\* Outcomes of call_groq_sync: a reply, or no reply and an error code.
GroqOutcomes ==
    {GroqResponse("Check the udder. Apply antiseptic.", "None"),
     GroqResponse("None", "request_failed")}

\* SpecGate adds the call that raises (an issue that is not a str, a body
\* without choices): the exception leaves chat_api as well.
GateGroqOutcomes == GroqOutcomes \cup {GroqRaises("AttributeError")}

\* Outcomes of embedding_is_cattle_related(msg): the score passes the
\* threshold, it does not, or the filter is unavailable or raises.
EmbeddingOutcomes == {"pass", "fail", "raised", "unavailable"}

StripTable == [m \in GateMessages |-> Strip(m)] @@ << >>

Texts == {StripTable[m] : m \in GateMessages}

LowerTable == [t \in Texts |-> Lower(t)] @@ << >>

GreetingTable == [t \in Texts |-> matches_greeting(LowerTable[t])] @@ << >>

KeywordTable == [t \in Texts |-> keyword_match(LowerTable[t])] @@ << >>

BovineHintTable ==
    [t \in Texts |-> \E term \in BOVINE_CORE_TERMS : Contains(term, LowerTable[t])] @@ << >>

RefusalTable == [t \in Texts, hc \in BOOLEAN |-> should_refuse(t, hc)] @@ << >>

NormaliseTable == [raw \in AllContexts |-> normalise_context(raw)] @@ << >>

\* The payloads for which augment_context_with_cattle raises.
RaisingContexts ==
    {raw \in AllContexts : augment_raises(NormaliseTable[raw])} \cup {}

BeautifyTable ==
    [r \in {g.reply : g \in GroqOutcomes} |-> beautify_reply(r)] @@ << >>

\* The contexts the request inputs resolve to over the initial Cattle table.
KnownContexts ==
    {EmptyDict} \cup
    {augment_context_with_cattle(InitCattle, u, NormaliseTable[raw]) :
        u \in Farmers, raw \in RequestContexts}

GreetingReplyTable == [c \in KnownContexts |-> greeting_for_context(c)] @@ << >>

\* greeting_for_context(context), looked up in its table
GreetingReply(context) ==
    GreetingReplyTable[context]

-----------------------------------------------------------------------------
(* views.py: chat_api.                                                     *)

\* A lookup of the stored session by primary key alone.
SessionUsable_any_owner(rows, active_session_id, user) ==
    /\ active_session_id # 0
    /\ active_session_id \in DOMAIN rows

\* ChatSession.objects.filter(pk=active_session_id, user=request.user).first()
\* is a row (lines 61-62).
SessionUsable(rows, active_session_id, user) ==
    /\ active_session_id # 0
    /\ active_session_id \in DOMAIN rows
    /\ rows[active_session_id].user = user

\* ChatMessage.objects.filter(session=session).exists()
HasMessages(msgs, sid) == \E i \in DOMAIN msgs : msgs[i].session = sid

\* A handler that rewrites the session's context whether or not it has messages.
ApplyIncomingContext_never_fork(rows, sid, user, incoming, has_messages) ==
    IF DOMAIN incoming # {} /\ ~PyDictEq(rows[sid].context, incoming)
    THEN [rows |-> [rows EXCEPT ![sid].context = incoming], sid |-> sid, forked |-> FALSE]
    ELSE [rows |-> rows, sid |-> sid, forked |-> FALSE]

\* A handler that forks a session with messages and also rewrites its context.
ApplyIncomingContext_rewrite_old(rows, sid, user, incoming, has_messages) ==
    IF DOMAIN incoming # {} /\ ~PyDictEq(rows[sid].context, incoming)
    THEN IF has_messages
         THEN [rows |-> Append([rows EXCEPT ![sid].context = incoming],
                               [user |-> user, context |-> incoming]),
               sid |-> Len(rows) + 1, forked |-> TRUE]
         ELSE [rows |-> [rows EXCEPT ![sid].context = incoming],
               sid |-> sid, forked |-> FALSE]
    ELSE [rows |-> rows, sid |-> sid, forked |-> FALSE]

\* A handler that creates a session for every differing context.
ApplyIncomingContext_always_fork(rows, sid, user, incoming, has_messages) ==
    IF DOMAIN incoming # {} /\ ~PyDictEq(rows[sid].context, incoming)
    THEN [rows |-> Append(rows, [user |-> user, context |-> incoming]),
          sid |-> Len(rows) + 1, forked |-> TRUE]
    ELSE [rows |-> rows, sid |-> sid, forked |-> FALSE]

\* A handler that skips the comparison of line 72.
ApplyIncomingContext_uncompared(rows, sid, user, incoming, has_messages) ==
    IF DOMAIN incoming # {}
    THEN IF has_messages
         THEN [rows |-> Append(rows, [user |-> user, context |-> incoming]),
               sid |-> Len(rows) + 1, forked |-> TRUE]
         ELSE [rows |-> [rows EXCEPT ![sid].context = incoming],
               sid |-> sid, forked |-> FALSE]
    ELSE [rows |-> rows, sid |-> sid, forked |-> FALSE]

\* Lines 70-81: what a non-empty incoming context does to the session table
\* and to the session of the request.
ApplyIncomingContext(rows, sid, user, incoming, has_messages) ==
    IF DOMAIN incoming # {} /\ ~PyDictEq(rows[sid].context, incoming)
    THEN IF has_messages
         THEN [rows |-> Append(rows, [user |-> user, context |-> incoming]),
               sid |-> Len(rows) + 1, forked |-> TRUE]
         ELSE [rows |-> [rows EXCEPT ![sid].context = incoming],
               sid |-> sid, forked |-> FALSE]
    ELSE [rows |-> rows, sid |-> sid, forked |-> FALSE]

\* A scope gate that lets every message through.
PassesScopeGate_open(has_context, keyword_hit, embedding_pass) == TRUE

\* Line 113: the scope gate.
PassesScopeGate(has_context, keyword_hit, embedding_pass) ==
    has_context \/ keyword_hit \/ embedding_pass

\* A handler that runs the refusal classifier before the greeting check.
Decide_refusal_first(msg, has_context, bovine_hint, keyword_hit, embedding_pass) ==
    LET refusal_reason == RefusalTable[msg, has_context \/ bovine_hint]
    IN  IF refusal_reason # "None" THEN [kind |-> "refusal", reason |-> refusal_reason]
        ELSE IF GreetingTable[msg] THEN [kind |-> "greeting", reason |-> "None"]
        ELSE IF ~(has_context \/ keyword_hit \/ embedding_pass)
        THEN [kind |-> "scope", reason |-> "None"]
        ELSE [kind |-> "llm", reason |-> "None"]

\* A handler that sends every message with context, a keyword hit or a
\* semantic pass to the LLM before the refusal step.
Decide_scope_first(msg, has_context, bovine_hint, keyword_hit, embedding_pass) ==
    IF GreetingTable[msg] THEN [kind |-> "greeting", reason |-> "None"]
    ELSE IF has_context \/ keyword_hit \/ embedding_pass
    THEN [kind |-> "llm", reason |-> "None"]
    ELSE LET refusal_reason == RefusalTable[msg, has_context \/ bovine_hint]
         IN  IF refusal_reason # "None" THEN [kind |-> "refusal", reason |-> refusal_reason]
             ELSE [kind |-> "scope", reason |-> "None"]

\* A handler without the refusal step of lines 107-111.
Decide_no_refusal(msg, has_context, bovine_hint, keyword_hit, embedding_pass) ==
    IF GreetingTable[msg] THEN [kind |-> "greeting", reason |-> "None"]
    ELSE IF ~(has_context \/ keyword_hit \/ embedding_pass)
    THEN [kind |-> "scope", reason |-> "None"]
    ELSE [kind |-> "llm", reason |-> "None"]

\* Lines 102-128: which reply the handler produces for an accepted message.
Decide(msg, has_context, bovine_hint, keyword_hit, embedding_pass) ==
    IF GreetingTable[msg] THEN [kind |-> "greeting", reason |-> "None"]
    ELSE LET refusal_reason == RefusalTable[msg, has_context \/ bovine_hint]
         IN  IF refusal_reason # "None" THEN [kind |-> "refusal", reason |-> refusal_reason]
             ELSE IF ~PassesScopeGate(has_context, keyword_hit, embedding_pass)
             THEN [kind |-> "scope", reason |-> "None"]
             ELSE [kind |-> "llm", reason |-> "None"]

\* An exception of the classifier taken for a pass.
EmbeddingPass_failure_passes(emb) == emb \in {"pass", "raised", "unavailable"}

\* Lines 30-35 and 88-97: embedding_pass starts False and is the classifier's
\* answer when the classifier was imported and returned; it stays False when
\* the import failed ("unavailable") and when the call raised ("raised", a
\* model that cannot be loaded included), and the handler goes on.
EmbeddingPass(emb) == emb = "pass"

\* Lines 89-92: embedding_is_cattle_related(msg) is called for every accepted
\* message, before the greeting test of line 102, unless the import failed.
EmbeddingCalls(emb) == IF emb = "unavailable" THEN 0 ELSE 1

\* Lines 102-107: should_refuse is called once the greeting test has failed.
RefusalCalls(decision) == IF decision.kind = "greeting" THEN 0 ELSE 1

\* A handler that calls the client a second time when the first call failed.
LlmCalls_retried(decision, groq) ==
    IF decision.kind # "llm" THEN 0
    ELSE IF groq.reply = "None" THEN 2 ELSE 1

\* Lines 123-139: call_groq_sync has one call site, reached only past the
\* three early returns and outside any loop; its answer, whatever it is,
\* is followed by a return.
LlmCalls(decision, groq) == IF decision.kind = "llm" THEN 1 ELSE 0

Rejected(w, user, msg, status, error) ==
    [op |-> "chat_api", web |-> w, user |-> user, message |-> msg, status |-> status,
     ok |-> FALSE, error |-> error, code |-> "None", reply |-> "None", kind |-> "rejected",
     reason |-> "None", session_id |-> 0, bot_message_id |-> 0, llm_calls |-> 0,
     stored_id |-> 0, resolved_id |-> 0, forked |-> FALSE,
     incoming_context |-> EmptyDict, context |-> EmptyDict,
     keyword_hit |-> FALSE, embedding |-> "None", embedding_pass |-> FALSE,
     embedding_calls |-> 0, refusal_calls |-> 0, geo |-> "None"]

\* A create that overwrites the row the session already has for the role.
objects_create_or_update(table, row) ==
    IF \E i \in DOMAIN table : table[i].session = row.session /\ table[i].role = row.role
    THEN LET i == CHOOSE k \in DOMAIN table :
                      table[k].session = row.session /\ table[k].role = row.role
         IN  [table EXCEPT ![i] = row]
    ELSE Append(table, row)

\* ChatMessage.objects.create(...) (lines 100, 104, 110, 118, 142): a new row
\* with the next primary key; no row is touched.
objects_create(table, row) == Append(table, row)

\* A handler that stores the reply before the user message.
RowsCreated_bot_first(user_row, bot_row, failed) ==
    IF failed THEN <<user_row>> ELSE <<bot_row, user_row>>

\* Line 100, then one of lines 104, 110, 118, 142: the rows a request
\* creates, in the order it creates them; the reply is not stored when
\* call_groq_sync gave none or raised.
RowsCreated(user_row, bot_row, failed) ==
    IF failed THEN <<user_row>> ELSE <<user_row, bot_row>>

\* Lines 100-143: the user message is stored, then the reply (none when the
\* LLM call failed or raised), and the response is returned; an exception
\* of call_groq_sync is not caught and ends the request with status 500,
\* for which the session middleware does not save the browser session.
Persist(w, user, msg, emb, groq, geo, active_session_id, sid1, incoming_context, applied, context, decision, location_label, failed, reply) ==
    /\ sessions' = applied.rows
    /\ web' = IF failed /\ groq.raised # "None" THEN web
              ELSE [web EXCEPT ![w] = [chatbot_session_id |-> applied.sid,
                                       location |-> location_label]]
    /\ messages' =
          LET user_row == [session |-> applied.sid, role |-> "user", text |-> msg,
                           location |-> location_label, feedback |-> 0, by |-> user]
              bot_row == [session |-> applied.sid, role |-> "bot", text |-> reply,
                          location |-> location_label, feedback |-> 0, by |-> user]
              rows == RowsCreated(user_row, bot_row, failed)
          IN  IF Len(rows) = 1 THEN objects_create(messages, rows[1])
              ELSE objects_create(objects_create(messages, rows[1]), rows[2])
    /\ last' = [op |-> "chat_api", web |-> w, user |-> user, message |-> msg,
                status |-> IF ~failed THEN 200
                           ELSE IF groq.error_code # "None" THEN 502 ELSE 500,
                ok |-> ~failed,
                error |-> IF ~failed THEN "None"
                          ELSE IF groq.raised # "None" THEN "unhandled_exception"
                          ELSE "model_error",
                code |-> IF failed THEN groq.error_code ELSE "None",
                reply |-> reply, kind |-> decision.kind, reason |-> decision.reason,
                session_id |-> applied.sid,
                bot_message_id |-> IF failed THEN 0 ELSE Len(messages) + 2,
                llm_calls |-> LlmCalls(decision, groq),
                stored_id |-> active_session_id, resolved_id |-> sid1,
                forked |-> applied.forked,
                incoming_context |-> incoming_context, context |-> context,
                keyword_hit |-> KeywordTable[msg], embedding |-> emb,
                embedding_pass |-> EmbeddingPass(emb),
                embedding_calls |-> EmbeddingCalls(emb),
                refusal_calls |-> RefusalCalls(decision), geo |-> geo.outcome]
    /\ UNCHANGED <<cattle, cattle_pk, call, embedding>>

\* Lines 102-141: the reply of the decided kind; call_groq_sync is called
\* for kind "llm" only and answers groq.
Answer(w, user, msg, emb, groq, geo, active_session_id, sid1, incoming_context, applied, context, decision, location_label) ==
    Persist(w, user, msg, emb, groq, geo, active_session_id, sid1, incoming_context, applied,
            context, decision, location_label,
            decision.kind = "llm" /\ groq.reply = "None",
            CASE decision.kind = "greeting" ->
                     GreetingReply(IF DOMAIN context # {} THEN context ELSE EmptyDict)
              [] decision.kind = "refusal" -> build_refusal_reply(decision.reason)
              [] decision.kind = "scope" -> SCOPE_REPLY
              [] decision.kind = "llm" -> BeautifyTable[groq.reply])

\* Lines 83-99: the flags of the message and the location label.
Classify(w, user, msg, emb, groq, geo, active_session_id, sid1, incoming_context, applied, context) ==
    Answer(w, user, msg, emb, groq, geo, active_session_id, sid1, incoming_context, applied,
           context,
           Decide(msg, DOMAIN context # {}, BovineHintTable[msg], KeywordTable[msg],
                  EmbeddingPass(emb)),
           get_location_label(web[w].location, geo))

\* Lines 70-81: the incoming context forks, rewrites or keeps the session.
WithIncoming(w, user, msg, emb, groq, geo, active_session_id, rows1, sid1, incoming_context) ==
    Classify(w, user, msg, emb, groq, geo, active_session_id, sid1, incoming_context,
             ApplyIncomingContext(rows1, sid1, user, incoming_context,
                                  HasMessages(messages, sid1)),
             IF DOMAIN incoming_context # {} THEN incoming_context
             ELSE rows1[sid1].context)

\* Lines 67-68: the incoming context is normalised and enriched.
WithSession(w, user, msg, raw, emb, groq, geo, active_session_id, rows1, sid1) ==
    WithIncoming(w, user, msg, emb, groq, geo, active_session_id, rows1, sid1,
                 augment_context_with_cattle(cattle, user, NormaliseTable[raw]))

\* Lines 59-65: the stored session is used if it is the user's, else a new
\* session is created.
ResolveSession(w, user, msg, raw, emb, groq, geo, active_session_id) ==
    IF SessionUsable(sessions, active_session_id, user)
    THEN WithSession(w, user, msg, raw, emb, groq, geo, active_session_id,
                     sessions, active_session_id)
    ELSE WithSession(w, user, msg, raw, emb, groq, geo, active_session_id,
                     Append(sessions, [user |-> user, context |-> EmptyDict]),
                     Len(sessions) + 1)

\* Lines 59-68 when augment_context_with_cattle raises: the session is
\* resolved as above (a row is created at line 64 unless the stored session
\* is the user's), then the exception leaves chat_api before line 100.  The
\* response has status 500, for which the browser session is not saved; the
\* row written at line 64 stays.
Unhandled(w, user, msg, active_session_id) ==
    /\ sessions' = IF SessionUsable(sessions, active_session_id, user) THEN sessions
                   ELSE Append(sessions, [user |-> user, context |-> EmptyDict])
    /\ last' = [Rejected(w, user, msg, 500, "unhandled_exception")
                    EXCEPT !.kind = "raised", !.stored_id = active_session_id,
                           !.resolved_id =
                               IF SessionUsable(sessions, active_session_id, user)
                               THEN active_session_id ELSE Len(sessions) + 1]
    /\ UNCHANGED <<messages, cattle, cattle_pk, web, call, embedding>>

\* The message of the body: (data.get("message") or "").strip()
MessageOf(body) == StripTable[body.message]

\* chat_api(request): request.session is web[w], request.user is user, the
\* body is {"message": body.message, "context": body.context}; emb, groq and
\* geo are what the semantic filter, the LLM client and the geo lookup
\* answer if they are called.
ChatApi(w, user, body, emb, groq, geo) ==
    IF MessageOf(body) = ""
    THEN /\ last' = Rejected(w, user, "", 400, "empty_message")
         /\ UNCHANGED <<sessions, messages, cattle, cattle_pk, web, call, embedding>>
    ELSE IF user \notin Farmers
    THEN /\ last' = Rejected(w, user, MessageOf(body), 403, "forbidden")
         /\ UNCHANGED <<sessions, messages, cattle, cattle_pk, web, call, embedding>>
    ELSE IF body.context \in RaisingContexts
    THEN Unhandled(w, user, MessageOf(body), web[w].chatbot_session_id)
    ELSE ResolveSession(w, user, MessageOf(body), body.context, emb, groq, geo,
                        web[w].chatbot_session_id)

-----------------------------------------------------------------------------
(* views.py: feedback.                                                     *)

FeedbackResponse(status, error) ==
    [op |-> "feedback", status |-> status, ok |-> status = 200, error |-> error]

\* Lines 157-162: the body is parsed and both fields are converted with
\* int(); a body that is not a JSON object, a missing field and a value that
\* int() rejects end in the except branch.
ParseFeedback(payload) ==
    IF ~payload.dict THEN [ok |-> FALSE, mid |-> 0, fb |-> 0]
    ELSE LET mid == ToInt(Get(payload.items, "message_id"))
             fb == ToInt(Get(payload.items, "feedback"))
         IN  [ok |-> mid.ok /\ fb.ok, mid |-> mid.n, fb |-> fb.n]

\* The ownership test left out.
OwnedByRequester_anyone(m, user) == TRUE

\* Line 170: m.session.user == request.user
OwnedByRequester(m, user) == sessions[m.session].user = user

\* feedback(request) of a logged-in user with the JSON body `payload`;
\* m.save() writes the row on behalf of the requester.
Feedback(user, payload) ==
    LET data == ParseFeedback(payload)
        mid == data.mid
    IN  IF ~data.ok
        THEN /\ last' = FeedbackResponse(400, "invalid_payload")
             /\ UNCHANGED <<sessions, messages, cattle, cattle_pk, web, call, embedding>>
        ELSE IF ~(mid \in DOMAIN messages /\ messages[mid].role = "bot")
        THEN /\ last' = FeedbackResponse(404, "not_found")
             /\ UNCHANGED <<sessions, messages, cattle, cattle_pk, web, call, embedding>>
        ELSE IF ~OwnedByRequester(messages[mid], user)
        THEN /\ last' = FeedbackResponse(403, "forbidden")
             /\ UNCHANGED <<sessions, messages, cattle, cattle_pk, web, call, embedding>>
        ELSE IF data.fb \notin {-1, 0, 1}
        THEN /\ last' = FeedbackResponse(400, "invalid_feedback")
             /\ UNCHANGED <<sessions, messages, cattle, cattle_pk, web, call, embedding>>
        ELSE /\ messages' = [messages EXCEPT ![mid].feedback = data.fb,
                                               ![mid].by = user]
             /\ last' = FeedbackResponse(200, "None")
             /\ UNCHANGED <<sessions, cattle, cattle_pk, web, call, embedding>>

\* The body {"message_id": mid, "feedback": fb}
FeedbackPayload(mid, fb) ==
    RawDict([k \in {"message_id", "feedback"} |->
                IF k = "message_id" THEN mid ELSE fb])

-----------------------------------------------------------------------------
(* core/views.py: doctor_chat_history.                                     *)

\* A guard that every logged-in user passes.
is_doctor_anyone(user) == TRUE

\* Line 112: getattr(request.user, 'is_doctor', False)
is_doctor(user) == user \in Doctors

\* Lines 114-118: the prefetch of a session's messages, ordered by
\* created_at: the primary keys of its rows in creation order.
ordered_messages(msgs, sid) ==
    LET RECURSIVE From(_)
        From(i) == IF i > Len(msgs) THEN << >>
                   ELSE IF msgs[i].session = sid THEN <<i>> \o From(i + 1)
                   ELSE From(i + 1)
    IN  From(1)

\* Lines 120-125: the sessions of users with the farmer role, newest first.
FarmerSessions(rows) ==
    LET RECURSIVE Down(_)
        Down(sid) == IF sid = 0 THEN << >>
                     ELSE IF rows[sid].user \in Farmers THEN <<sid>> \o Down(sid - 1)
                     ELSE Down(sid - 1)
    IN  Down(Len(rows))

\* Lines 127-156 and 164-173: the animal of the session's context, looked
\* up among the animals of the session's user; 0 when there is none.
SessionCattle(herd, owner, context) ==
    LET animal_id == Get(context, "animal_id")
        animal_pk == ToInt(animal_id)
    IN  IF IsNoneOrEmpty(animal_id) \/ ~animal_pk.ok THEN 0
        ELSE IF \E c \in herd : c.pk = animal_pk.n /\ c.owner = owner THEN animal_pk.n
        ELSE 0

\* Lines 158-186: one entry per listed session.
SessionEntry(rows, msgs, herd, sid) ==
    LET ordered == ordered_messages(msgs, sid)
    IN  [session |-> sid, farmer |-> rows[sid].user, context |-> rows[sid].context,
         cattle |-> SessionCattle(herd, rows[sid].user, rows[sid].context),
         messages |-> ordered, message_count |-> Len(ordered)]

\* doctor_chat_history(request) of a logged-in user: a redirect for anyone
\* but a doctor, the list of the farmers' sessions for a doctor.  Nothing
\* is written.
DoctorChatHistory(user) ==
    /\ last' =
          IF ~is_doctor(user)
          THEN [op |-> "doctor_chat_history", user |-> user, status |-> 302,
                session_data |-> << >>]
          ELSE LET listed == FarmerSessions(sessions)
               IN  [op |-> "doctor_chat_history", user |-> user, status |-> 200,
                    session_data |->
                        [i \in 1..Len(listed) |->
                            SessionEntry(sessions, messages, cattle, listed[i])]]
    /\ UNCHANGED <<sessions, messages, cattle, cattle_pk, web, call, embedding>>

-----------------------------------------------------------------------------
(* core/views.py: manage_cattle.  CattleForm (core/forms.py) is not among  *)
(* the sources: a request carries the values the form would clean and      *)
(* whether the form is valid.                                              *)

\* A lookup by primary key alone.
get_object_or_404_any_owner(herd, pk, user) == {c \in herd : c.pk = pk}

\* get_object_or_404(Cattle, pk=pk, owner=request.user): the matching rows
\* (none: Http404).
get_object_or_404(herd, pk, user) == {c \in herd : c.pk = pk /\ c.owner = user}

\* The response of manage_cattle; cattle_list holds the primary keys of the
\* rendered list (lines 221-226), empty for a redirect or an error.
CattleResponse(user, method, status, cattle_list) ==
    [op |-> "manage_cattle", user |-> user, method |-> method, status |-> status,
     cattle_list |-> cattle_list]

\* Line 221: Cattle.objects.filter(owner=request.user)
CattleListOf(herd, user) == {c.pk : c \in {x \in herd : x.owner = user}}

\* form.save(commit=False); cattle.owner = request.user (lines 209-211):
\* the cleaned values on the edited row, or on a new row.
SavedCattle(pk, user, cleaned) ==
    [pk |-> pk, owner |-> user, name |-> cleaned.name, tag_number |-> cleaned.tag_number,
     breed |-> cleaned.breed, age_years |-> cleaned.age_years,
     daily_milk_yield |-> cleaned.daily_milk_yield,
     last_vaccination_date |-> cleaned.last_vaccination_date]

\* Lines 197-200: POST with delete_id.  A key that is not a number makes the
\* query raise (status 500).
DeleteCattle(user, delete_id) ==
    LET pk == ToInt(delete_id)
        found == get_object_or_404(cattle, pk.n, user)
    IN  /\ cattle' = IF pk.ok THEN cattle \ found ELSE cattle
        /\ last' = CattleResponse(user, "POST", IF ~pk.ok THEN 500
                                         ELSE IF found = {} THEN 404 ELSE 302, {})
        /\ UNCHANGED <<sessions, messages, cattle_pk, web, call, embedding>>

\* Lines 202-212: POST without delete_id.  An empty cattle_id adds an
\* animal, any other edits the requester's animal of that key; nothing is
\* saved when the form is invalid, and the page is rendered again.
SaveCattle(user, cattle_id, cleaned, valid) ==
    LET pk == ToInt(cattle_id)
        editing == cattle_id.s # ""
        found == get_object_or_404(cattle, pk.n, user)
    IN  IF editing /\ ~pk.ok
        THEN /\ last' = CattleResponse(user, "POST", 500, {})
             /\ UNCHANGED <<sessions, messages, cattle, cattle_pk, web, call, embedding>>
        ELSE IF editing /\ found = {}
        THEN /\ last' = CattleResponse(user, "POST", 404, {})
             /\ UNCHANGED <<sessions, messages, cattle, cattle_pk, web, call, embedding>>
        ELSE IF ~valid
        THEN /\ last' = CattleResponse(user, "POST", 200, CattleListOf(cattle, user))
             /\ UNCHANGED <<sessions, messages, cattle, cattle_pk, web, call, embedding>>
        ELSE IF editing
        THEN /\ cattle' = (cattle \ found) \cup {SavedCattle(pk.n, user, cleaned)}
             /\ last' = CattleResponse(user, "POST", 302, {})
             /\ UNCHANGED <<sessions, messages, cattle_pk, web, call, embedding>>
        ELSE /\ cattle_pk < MaxCattle
             /\ cattle_pk' = cattle_pk + 1
             /\ cattle' = cattle \cup {SavedCattle(cattle_pk + 1, user, cleaned)}
             /\ last' = CattleResponse(user, "POST", 302, {})
             /\ UNCHANGED <<sessions, messages, web, call, embedding>>

\* Lines 213-226: GET, with or without ?edit=: the page with the
\* requester's animals, or 404 for an animal that is not the requester's.
ShowCattle(user, edit_id) ==
    LET pk == ToInt(edit_id)
        editing == edit_id.s # ""
    IN  /\ last' = IF editing /\ ~pk.ok THEN CattleResponse(user, "GET", 500, {})
                   ELSE IF editing /\ get_object_or_404(cattle, pk.n, user) = {}
                   THEN CattleResponse(user, "GET", 404, {})
                   ELSE CattleResponse(user, "GET", 200, CattleListOf(cattle, user))
        /\ UNCHANGED <<sessions, messages, cattle, cattle_pk, web, call, embedding>>

-----------------------------------------------------------------------------
(* Spec: chat_api and feedback requests of any user, handled one at a      *)
(* time, until the ChatMessage table holds MaxMessages rows.               *)

\* Scores of feedback payloads: a valid one and an invalid one.
FeedbackScores == {1, 2}

ChatRequest ==
    \E w \in WebSessions, user \in Users, message \in SessionMessages,
       context \in RequestContexts, emb \in EmbeddingOutcomes, groq \in GroqOutcomes :
        /\ Len(messages) + 2 <= MaxMessages
        /\ ChatApi(w, user, [message |-> message, context |-> context], emb, groq, GeoUnconfigured)

FeedbackRequest ==
    \E user \in Users, mid \in 1..(Len(messages) + 1), fb \in FeedbackScores :
        Feedback(user, FeedbackPayload(PyInt(mid), PyInt(fb)))

Next == ChatRequest \/ FeedbackRequest

Spec == Init /\ [][Next]_vars

\* The step is a chat_api request that passed the two early returns; the
\* requester, the browser session and the resolved incoming context are
\* those recorded in last'.
AcceptedChatStep ==
    /\ last'.op = "chat_api"
    /\ last'.kind # "rejected"
    /\ messages' # messages

\* The stored session id of browser session w names a session of user.
StoredSessionOf(w, user) ==
    /\ web[w].chatbot_session_id \in DOMAIN sessions
    /\ sessions[web[w].chatbot_session_id].user = user

\* The rows of the ChatMessage table msgs that belong to session sid.
MessagesIn(msgs, sid) == {i \in DOMAIN msgs : msgs[i].session = sid}

\* C5: session forking.  When the active session already has at least one
\* message and a request arrives whose normalised and enriched context is
\* non-empty and differs from the session's context, chat_api creates a new
\* session owned by the same user with the incoming context, switches the
\* active-session pointer to it, stores the request's messages in the new
\* session, and leaves the old session's messages and context unchanged.
C5_ForkOnContextChange ==
    [][ LET w == last'.web
            user == last'.user
            incoming == last'.incoming_context
            old == web[w].chatbot_session_id
            new == Len(sessions) + 1
        IN  ( /\ AcceptedChatStep
              /\ StoredSessionOf(w, user)
              /\ HasMessages(messages, old)
              /\ DOMAIN incoming # {}
              /\ ~PyDictEq(sessions[old].context, incoming) )
            => ( /\ Len(sessions') = new
                 /\ sessions'[new] = [user |-> user, context |-> incoming]
                 /\ web'[w].chatbot_session_id = new
                 /\ last'.session_id = new
                 /\ \A i \in DOMAIN messages' \ DOMAIN messages :
                        messages'[i].session = new
                 /\ sessions'[old] = sessions[old]
                 /\ MessagesIn(messages', old) = MessagesIn(messages, old)
                 /\ \A i \in DOMAIN messages : messages'[i] = messages[i] )
      ]_vars

\* C5 witness: a farmer's session with messages was forked by a request
\* with a different context; both sessions hold messages and the pointer
\* names the new one.
C5_Witness ==
    /\ last.op = "chat_api"
    /\ last.forked
    /\ last.stored_id = 1
    /\ last.session_id = 2
    /\ Len(sessions) = 2
    /\ sessions[1].user = sessions[2].user
    /\ sessions[2].context = last.incoming_context
    /\ ~PyDictEq(sessions[1].context, sessions[2].context)
    /\ MessagesIn(messages, 1) # {}
    /\ MessagesIn(messages, 2) # {}
    /\ web["w1"].chatbot_session_id = 2

\* C6: for any sequence of chat_api and feedback requests handled one at a
\* time, the context of a session that has at least one message is never
\* modified again.
C6_ContextFrozenOnceUsed ==
    [][ \A sid \in DOMAIN sessions :
            HasMessages(messages, sid) =>
                /\ sid \in DOMAIN sessions'
                /\ sessions'[sid].context = sessions[sid].context
      ]_vars

\* C6 witness: a session with a non-empty context and messages was the
\* stored session of a request that carried another context; the request
\* was answered in another session.
C6_Witness ==
    /\ last.op = "chat_api"
    /\ last.kind # "rejected"
    /\ last.stored_id = 1
    /\ last.resolved_id = 1
    /\ DOMAIN sessions[1].context # {}
    /\ DOMAIN last.incoming_context # {}
    /\ sessions[1].context # last.incoming_context
    /\ Cardinality(MessagesIn(messages, 1)) >= 1
    /\ last.session_id # 1

\* C7: when the resolved session has no messages yet (a session just
\* created by the request included) and the normalised and enriched incoming
\* context is non-empty and differs from the session's context, chat_api
\* updates that session's context in place and creates no additional
\* session; a first message sent with animal context yields exactly one
\* session, whose stored context is the incoming context.
C7_UpdateInPlaceBeforeMessages ==
    [][ LET w == last'.web
            user == last'.user
            incoming == last'.incoming_context
            stored == web[w].chatbot_session_id
            usable == StoredSessionOf(w, user)
            resolved == IF usable THEN stored ELSE Len(sessions) + 1
            before == IF usable THEN sessions[stored].context ELSE EmptyDict
        IN  ( /\ AcceptedChatStep
              /\ ~HasMessages(messages, resolved)
              /\ DOMAIN incoming # {}
              /\ ~PyDictEq(before, incoming) )
            => ( /\ Len(sessions') = IF usable THEN Len(sessions) ELSE Len(sessions) + 1
                 /\ sessions'[resolved] = [user |-> user, context |-> incoming]
                 /\ \A sid \in DOMAIN sessions : sid # resolved => sessions'[sid] = sessions[sid]
                 /\ web'[w].chatbot_session_id = resolved
                 /\ last'.session_id = resolved
                 /\ \A i \in DOMAIN messages' \ DOMAIN messages :
                        messages'[i].session = resolved )
      ]_vars

\* C7 witness: the first message of the system was sent with animal
\* context: one session exists, its context is the enriched incoming
\* context and it holds the request's messages.
C7_Witness ==
    /\ last.op = "chat_api"
    /\ last.stored_id = 0
    /\ ~last.forked
    /\ Len(sessions) = 1
    /\ DOMAIN last.incoming_context # {}
    /\ "tag_number" \in DOMAIN last.incoming_context
    /\ sessions[1].context = last.incoming_context
    /\ MessagesIn(messages, 1) = DOMAIN messages
    /\ messages # << >>

\* C8: a stored session id is used only if that session belongs to the
\* requesting user; otherwise a new session with empty context is created
\* for the requester.  After any sequence of requests by any users, every
\* message written by chat_api is in a session owned by the user who sent
\* the request.
C8_OwnSessionOnly ==
    /\ \A i \in DOMAIN messages :
           /\ messages[i].session \in DOMAIN sessions
           /\ sessions[messages[i].session].user = messages[i].by
    /\ (last.op = "chat_api" /\ last.kind # "rejected") =>
           /\ sessions[last.resolved_id].user = last.user
           /\ sessions[last.session_id].user = last.user
           /\ web[last.web].chatbot_session_id = last.session_id
           /\ (last.resolved_id = last.stored_id) =>
                  sessions[last.stored_id].user = last.user
           /\ (last.resolved_id # last.stored_id) =>
                  /\ last.resolved_id > last.stored_id
                  /\ MessagesIn(messages, last.resolved_id) \subseteq
                         {i \in DOMAIN messages : messages[i].by = last.user}
                  /\ sessions[last.resolved_id].context \in
                         {EmptyDict, last.incoming_context}
                  /\ last.context \in {EmptyDict, last.incoming_context}

\* C8 witness: farmer u2 sent a message while the browser session stored
\* the id of a session of u1 that holds messages; u2's messages went to a
\* new session.
C8_Witness ==
    /\ last.op = "chat_api"
    /\ last.kind # "rejected"
    /\ last.user = "u2"
    /\ last.stored_id = 1
    /\ sessions[1].user = "u1"
    /\ MessagesIn(messages, 1) # {}
    /\ last.resolved_id = 2
    /\ \E i \in DOMAIN messages : messages[i].by = "u2" /\ messages[i].session = 2

\* C21: messages are append-only and sessions are retained: no chat_api or
\* feedback request deletes a session or a message, changes the owner of a
\* session, moves a message to another session, or changes the text, role
\* or location of an existing message; feedback is the only field of a
\* message that changes after creation.
C21_MessagesAppendOnly ==
    [][ /\ Len(sessions') >= Len(sessions)
        /\ \A sid \in DOMAIN sessions : sessions'[sid].user = sessions[sid].user
        /\ Len(messages') >= Len(messages)
        /\ \A i \in DOMAIN messages :
              messages'[i] = [messages[i] EXCEPT !.feedback = messages'[i].feedback]
      ]_vars

\* C21 witness: two sessions and a full message table, after a feedback
\* request that rated a bot message.
C21_Witness ==
    /\ last.op = "feedback"
    /\ last.ok
    /\ Len(sessions) >= 2
    /\ Len(messages) = MaxMessages
    /\ \E i \in DOMAIN messages : messages[i].role = "bot" /\ messages[i].feedback # 0

\* C30: a request whose normalised and enriched context is empty, or equal
\* to the resolved session's context, neither forks nor rewrites: no
\* session's context changes, no session is created when the stored session
\* is valid (only the session of the resolution step otherwise), the active
\* pointer names the resolved session, and the message is stored and
\* processed with that session's existing context.
C30_SameContextKeepsSession ==
    [][ LET w == last'.web
            user == last'.user
            incoming == last'.incoming_context
            stored == web[w].chatbot_session_id
            usable == StoredSessionOf(w, user)
            resolved == IF usable THEN stored ELSE Len(sessions) + 1
            existing == IF usable THEN sessions[stored].context ELSE EmptyDict
        IN  ( /\ AcceptedChatStep
              /\ (DOMAIN incoming = {} \/ PyDictEq(existing, incoming)) )
            => ( /\ ~last'.forked
                 /\ usable => sessions' = sessions
                 /\ ~usable => sessions' = Append(sessions, [user |-> user,
                                                            context |-> EmptyDict])
                 /\ web'[w].chatbot_session_id = resolved
                 /\ last'.session_id = resolved
                 /\ \A i \in DOMAIN messages' \ DOMAIN messages :
                        messages'[i].session = resolved
                 /\ PyDictEq(last'.context, existing) )
      ]_vars

\* C30 witness: a session with a non-empty context and messages was the
\* stored session of a later request that carried the same context; the
\* request was answered in that session and no other session exists.
C30_Witness ==
    /\ last.op = "chat_api"
    /\ last.kind # "rejected"
    /\ last.stored_id = 1
    /\ last.resolved_id = 1
    /\ last.session_id = 1
    /\ ~last.forked
    /\ DOMAIN last.incoming_context # {}
    /\ PyDictEq(sessions[1].context, last.incoming_context)
    /\ Len(sessions) = 1
    /\ Cardinality(MessagesIn(messages, 1)) >= 3

\* The rows of msgs in session sid with the given role.
RoleRows(msgs, sid, role) ==
    {i \in DOMAIN msgs : msgs[i].session = sid /\ msgs[i].role = role}

-----------------------------------------------------------------------------
(* SpecErrors: chat_api requests of every user, with bodies that are       *)
(* rejected, accepted, or raise before the user message is stored, until   *)
(* the ChatSession table holds MaxSessions rows.                           *)

ErrorContexts == {RawOther, ContextTulsi, ContextOverflow}

ErrorRequest ==
    \E user \in Users, message \in SessionMessages, context \in ErrorContexts,
       groq \in GroqOutcomes :
        /\ Len(messages) + 2 <= MaxMessages
        /\ Len(sessions) < MaxSessions
        /\ ChatApi("w1", user, [message |-> message, context |-> context], "fail", groq,
                   GeoUnconfigured)

NextErrors == ErrorRequest

SpecErrors == Init /\ [][NextErrors]_vars

\* The rows of session sid that the step added with the role and text given.
NewRows(sid, role, text) ==
    {i \in (DOMAIN messages') \ (DOMAIN messages) :
        /\ messages'[i].session = sid
        /\ messages'[i].role = role
        /\ messages'[i].text = text}

\* C38: a rejected chat_api request (empty message, or a user who is not a
\* farmer) creates no session and no message and leaves the active-session
\* pointer as it was; a request that is not rejected creates at most one
\* session, and every session a request creates receives the user message
\* of that request.
C38_SessionsGetTheirMessage ==
    [][ /\ last'.kind = "rejected"
            => (sessions' = sessions /\ messages' = messages /\ web' = web)
        /\ Len(sessions') <= Len(sessions) + 1
        /\ \A sid \in (DOMAIN sessions') \ (DOMAIN sessions) :
               NewRows(sid, "user", last'.message) # {}
      ]_vars

-----------------------------------------------------------------------------
(* SpecGate: chat_api requests of one farmer over the full message set,    *)
(* until the ChatMessage table holds GateMaxMessages rows.                 *)

GateRequest ==
    \E message \in GateMessages, context \in RequestContexts,
       emb \in EmbeddingOutcomes, groq \in GateGroqOutcomes :
        /\ Len(messages) + 2 <= GateMaxMessages
        /\ ChatApi("w1", "u1", [message |-> message, context |-> context], emb, groq, GeoUnconfigured)

NextGate == GateRequest

SpecGate == Init /\ [][NextGate]_vars

\* The last request was a chat_api request that passed the two early returns.
Accepted ==
    /\ last.op = "chat_api"
    /\ last.kind # "rejected"

\* The bot message of the last response is stored with text `reply` in the
\* session of the response.
BotMessageStored(reply) ==
    /\ last.bot_message_id \in DOMAIN messages
    /\ messages[last.bot_message_id] =
           [session |-> last.session_id, role |-> "bot", text |-> reply,
            location |-> messages[last.bot_message_id].location, feedback |-> 0,
            by |-> last.user]

\* C2: in chat_api, every accepted message (non-empty, sent by a farmer)
\* that contains a self-harm term is answered with the self-harm refusal
\* reply, whatever the session context and whatever else the message
\* contains.
C2_SelfHarmRefusedInChat ==
    (Accepted /\ HasSelfHarmTerm(last.message)) =>
        /\ last.reply = build_refusal_reply("self_harm")
        /\ last.llm_calls = 0

C4_ScopeGate ==
    Accepted =>
        LET lowered == Lower(last.message)
            has_context == DOMAIN last.context # {}
            bovine_hint == \E term \in BOVINE_CORE_TERMS : Contains(term, lowered)
            greeting == matches_greeting(lowered)
            refused == should_refuse(last.message, has_context \/ bovine_hint) # "None"
            open == has_context \/ keyword_match(lowered) \/ last.embedding_pass
        IN  /\ (last.llm_calls > 0) => (~greeting /\ ~refused /\ open)
            /\ (~greeting /\ ~refused /\ ~open) =>
                   /\ last.reply = SCOPE_REPLY
                   /\ BotMessageStored(SCOPE_REPLY)
                   /\ last.llm_calls = 0

\* C4 witness: a message with no context, no cattle keyword and a failing
\* semantic score got the scope-narrowing reply without an LLM call.
C4_Witness ==
    /\ Accepted
    /\ last.kind = "scope"
    /\ DOMAIN last.context = {}
    /\ ~keyword_match(Lower(last.message))
    /\ ~last.embedding_pass
    /\ last.reply = SCOPE_REPLY
    /\ last.llm_calls = 0

\* The response of the last request is a success carrying `reply`, which is
\* stored as the bot message, and the LLM client was not called.
SuccessWithFixedReply(reply) ==
    /\ last.ok
    /\ last.status = 200
    /\ last.error = "None"
    /\ last.reply = reply
    /\ BotMessageStored(reply)
    /\ last.llm_calls = 0

\* C17: a safety refusal (self_harm, violence, human_health) and the
\* scope-narrowing reply are successful responses: chat_api answers ok=true
\* with the fixed message, persists it as the bot message of the session,
\* and does not invoke the LLM client for that request.
C17_RefusalsAreSuccesses ==
    Accepted =>
        LET lowered == Lower(last.message)
            has_context == DOMAIN last.context # {}
            bovine_hint == \E term \in BOVINE_CORE_TERMS : Contains(term, lowered)
            greeting == matches_greeting(lowered)
            refusal_reason == should_refuse(last.message, has_context \/ bovine_hint)
            open == has_context \/ keyword_match(lowered) \/ last.embedding_pass
        IN  /\ (~greeting /\ refusal_reason # "None") =>
                   /\ refusal_reason \in {"self_harm", "violence", "human_health"}
                   /\ SuccessWithFixedReply(build_refusal_reply(refusal_reason))
            /\ (~greeting /\ refusal_reason = "None" /\ ~open) =>
                   SuccessWithFixedReply(SCOPE_REPLY)

\* C17 witness: a human-health request without cattle context was answered
\* ok=true with the human-health refusal, stored as the bot message.
C17_Witness ==
    /\ Accepted
    /\ last.message = "I have fever"
    /\ last.ok
    /\ last.reply = REFUSAL_HUMAN_HEALTH
    /\ Contains("doctor", Lower(last.reply))
    /\ BotMessageStored(last.reply)
    /\ Len(messages) = 2
    /\ last.llm_calls = 0

\* C36: the LLM client is never invoked for a message that contains a
\* self-harm term, whatever the session context, the keyword hits, the
\* semantic classifier's answer and the greeting match: the request is
\* answered with the greeting or the self-harm refusal.
C36_SelfHarmNeverReachesLlm ==
    (Accepted /\ HasSelfHarmTerm(last.message)) =>
        /\ last.llm_calls = 0
        /\ last.kind \in {"greeting", "refusal"}
        /\ last.kind = "refusal" => last.reason = "self_harm"
        /\ last.ok

\* C36 witness: a message with a self-harm term and a cattle keyword was
\* sent with animal context and passed the semantic classifier; it was
\* refused and the LLM client was not called.
C36_Witness ==
    /\ Accepted
    /\ HasSelfHarmTerm(last.message)
    /\ keyword_match(Lower(last.message))
    /\ DOMAIN last.context # {}
    /\ last.embedding_pass
    /\ last.reply = REFUSAL_SELF_HARM
    /\ last.llm_calls = 0

\* C31: a message that is not a greeting, is not refused and passes the
\* scope gate causes exactly one call of the LLM client in its request; a
\* failed call is not retried: the request ends with the error response,
\* still after one call, and no bot message is stored.
C31_OneCallNoRetry ==
    Accepted =>
        LET lowered == Lower(last.message)
            has_context == DOMAIN last.context # {}
            bovine_hint == \E term \in BOVINE_CORE_TERMS : Contains(term, lowered)
            greeting == matches_greeting(lowered)
            refused == should_refuse(last.message, has_context \/ bovine_hint) # "None"
            open == has_context \/ keyword_match(lowered) \/ last.embedding_pass
        IN  /\ (~greeting /\ ~refused /\ open) => last.llm_calls = 1
            /\ last.llm_calls <= 1
            /\ (last.llm_calls = 1 /\ last.reply = "None") =>
                   /\ ~last.ok
                   /\ last.status \in {500, 502}
                   /\ last.error \in {"model_error", "unhandled_exception"}
                   /\ last.bot_message_id = 0
                   /\ messages[Len(messages)].role = "user"
                   /\ messages[Len(messages)].text = last.message

\* C31 witness: a cattle question was sent to the LLM client, the call
\* failed with an error code and the request ended with status 502.
C31_Witness ==
    /\ Accepted
    /\ last.kind = "llm"
    /\ last.llm_calls = 1
    /\ ~last.ok
    /\ last.status = 502
    /\ last.code = "request_failed"
    /\ messages[Len(messages)].role = "user"

\* The rows of msgs with role "user".
UserRows(msgs) == {i \in DOMAIN msgs : msgs[i].role = "user"}

\* C16: when the LLM call fails (reply is None), chat_api persists no bot
\* message and returns an error response carrying the machine-readable
\* code; the only message written by that request is the user message, and
\* re-submitting the same request leaves the session in the state a single
\* submission would leave it in, apart from the reply.
C16_FailedCallRetrySafe ==
    [][ /\ ( /\ AcceptedChatStep
             /\ last'.kind = "llm"
             /\ last'.error = "model_error" )
           => ( /\ Len(messages') = Len(messages) + 1
                /\ messages'[Len(messages')].role = "user"
                /\ messages'[Len(messages')].text = last'.message
                /\ \A i \in DOMAIN messages : messages'[i] = messages[i]
                /\ ~last'.ok
                /\ last'.bot_message_id = 0
                /\ last'.code \in GroqErrorCodes )
        /\ ( /\ last.op = "chat_api"
             /\ last.error = "model_error"
             /\ AcceptedChatStep
             /\ last'.web = last.web
             /\ last'.user = last.user
             /\ last'.message = last.message
             /\ last'.incoming_context = last.incoming_context )
           => ( /\ sessions' = sessions
                /\ last'.session_id = last.session_id
                /\ UserRows(messages') = UserRows(messages) )
      ]_vars

\* The message contains a violence term (line 149).
HasViolenceTerm(message) ==
    \E term \in VIOLENCE_TERMS : Contains(term, Lower(message))

\* C14: in chat_api, has_cattle_context is the resolved context: every
\* accepted message that is not a greeting, contains no self-harm term,
\* contains a violence term and is processed with an empty resolved context
\* is answered with the violence refusal and never forwarded to the LLM.
C14_ViolenceRefusedWithoutContext ==
    ( /\ Accepted
      /\ ~matches_greeting(last.message)
      /\ ~HasSelfHarmTerm(last.message)
      /\ HasViolenceTerm(last.message)
      /\ DOMAIN last.context = {} )
    => ( /\ last.reply = build_refusal_reply("violence")
         /\ last.llm_calls = 0 )

\* C19: a failure of the semantic classifier (the import failed, the model
\* cannot be loaded, the call raised) never aborts chat_api: the handler goes
\* on with embedding_pass false, so the request is decided as if the
\* classifier had answered no, and a message with session context or a
\* cattle keyword hit that is neither a greeting nor refused is still
\* forwarded to the LLM.
C19_ClassifierFailureTolerated ==
    (Accepted /\ last.embedding \in {"raised", "unavailable"}) =>
        LET lowered == Lower(last.message)
            has_context == DOMAIN last.context # {}
            bovine_hint == \E term \in BOVINE_CORE_TERMS : Contains(term, lowered)
            keyword_hit == keyword_match(lowered)
            greeting == matches_greeting(lowered)
            refused == should_refuse(last.message, has_context \/ bovine_hint) # "None"
        IN  /\ ~last.embedding_pass
            /\ last.kind \in {"greeting", "refusal", "scope", "llm"}
            /\ last.llm_calls = 0 => (last.ok /\ BotMessageStored(last.reply))
            /\ (~greeting /\ ~refused /\ ~has_context /\ ~keyword_hit) =>
                   (last.kind = "scope" /\ last.llm_calls = 0)
            /\ (~greeting /\ ~refused /\ (has_context \/ keyword_hit)) =>
                   (last.kind = "llm" /\ last.llm_calls = 1)

\* C19 witness: the classifier raised on a message with a cattle keyword and
\* no context, and the message was answered by the LLM.
C19_Witness ==
    /\ Accepted
    /\ last.embedding = "raised"
    /\ DOMAIN last.context = {}
    /\ keyword_match(Lower(last.message))
    /\ last.kind = "llm"
    /\ last.llm_calls = 1
    /\ last.ok
    /\ BotMessageStored(last.reply)

\* C23: in chat_api a greeting is decided before any classifier runs: for
\* a message matching the greeting pattern neither the semantic (embedding)
\* classifier nor the refusal classifier is invoked.
C23_GreetingBeforeClassifiers ==
    (Accepted /\ matches_greeting(Lower(last.message))) =>
        /\ last.embedding_calls = 0
        /\ last.refusal_calls = 0

-----------------------------------------------------------------------------
(* SpecRefuse: should_refuse applied to every generated message.           *)

\* Init draws the arguments; the action applies the function once.
InitRefuse ==
    /\ InitDb
    /\ \E message \in Messages, has_cattle_context \in BOOLEAN :
           call = [op |-> "args", message |-> message,
                   has_cattle_context |-> has_cattle_context, result |-> "pending"]

CallShouldRefuse ==
    /\ call.op = "args"
    /\ call' = [call EXCEPT !.op = "should_refuse",
                            !.result = should_refuse(call.message, call.has_cattle_context)]
    /\ UNCHANGED <<sessions, messages, cattle, cattle_pk, web, last, embedding>>

NextRefuse == CallShouldRefuse

SpecRefuse == InitRefuse /\ [][NextRefuse]_vars

\* C1: should_refuse returns "self_harm" for every message that contains a
\* self-harm term, for both values of has_cattle_context and whatever
\* violence, human-health or bovine terms the message also contains.
C1_SelfHarmAlwaysRefused ==
    (call.op = "should_refuse" /\ HasSelfHarmTerm(call.message))
        => call.result = "self_harm"

\* C1 witness: a message with a self-harm term, a bovine-possessive phrase and
\* cattle context present was classified.
C1_Witness ==
    /\ call.op = "should_refuse"
    /\ call.has_cattle_context
    /\ HasSelfHarmTerm(call.message)
    /\ Contains("my cow", Lower(call.message))
    /\ call.result = "self_harm"

\* The message contains "my <term>" for a bovine core term (line 134).
HasBovinePossessive(message) ==
    \E term \in BOVINE_CORE_TERMS : Contains("my " \o term, Lower(message))

HasExplicitPhrasing(message) ==
    \E p \in EXPLICIT_SELF_MEDICATION : Contains(p, Lower(message))

\* C28: with has_cattle_context true, should_refuse returns None for every
\* message without a self-harm term; a violence or human-health refusal
\* (the explicit phrasings included) is returned only when has_cattle_context
\* is false.
C28_ContextSuppressesRefusals ==
    call.op = "should_refuse" =>
        /\ (call.has_cattle_context /\ ~HasSelfHarmTerm(call.message))
               => call.result = "None"
        /\ call.result \in {"violence", "human_health"} => ~call.has_cattle_context

\* C28 witness: with cattle context present, a message holding a violence
\* term and an explicit phrasing but no self-harm term was classified None.
C28_Witness ==
    /\ call.op = "should_refuse"
    /\ call.has_cattle_context
    /\ ~HasSelfHarmTerm(call.message)
    /\ HasViolenceTerm(call.message)
    /\ HasExplicitPhrasing(call.message)
    /\ call.result = "None"

\* The four conditions of the heuristic, read off the message.
HasAnimalNoun(message) == \E term \in ANIMAL_NOUNS : Contains(term, Lower(message))

HasHumanHealthTerm(message) ==
    \E term \in HUMAN_HEALTH_TERMS : Contains(term, Lower(message))

HasAfflictionCue(message) ==
    \E cue \in HUMAN_HEALTH_CUES : Contains(cue, Lower(message))

FourConditions(message) ==
    /\ ~HasBovinePossessive(message)
    /\ ~HasAnimalNoun(message)
    /\ HasHumanHealthTerm(message)
    /\ HasAfflictionCue(message)

\* C29: with has_cattle_context false and no self-harm term, should_refuse
\* returns "violence" if a violence term is present; else "human_health"
\* exactly when the four heuristic conditions hold or an explicit phrasing
\* is present; else None. Any animal noun in the message switches the
\* four-condition heuristic off.
C29_NoContextDecisionOrder ==
    (call.op = "should_refuse" /\ ~call.has_cattle_context
        /\ ~HasSelfHarmTerm(call.message))
        => call.result =
               IF HasViolenceTerm(call.message) THEN "violence"
               ELSE IF FourConditions(call.message) \/ HasExplicitPhrasing(call.message)
                    THEN "human_health"
               ELSE "None"

\* C29 witness: without cattle context, a message with a human-health term,
\* an affliction cue and an animal noun, but no bovine-possessive phrase, no
\* explicit phrasing and no violence or self-harm term, was classified None.
C29_Witness ==
    /\ call.op = "should_refuse"
    /\ ~call.has_cattle_context
    /\ ~HasSelfHarmTerm(call.message)
    /\ ~HasViolenceTerm(call.message)
    /\ ~HasExplicitPhrasing(call.message)
    /\ ~HasBovinePossessive(call.message)
    /\ HasAnimalNoun(call.message)
    /\ HasHumanHealthTerm(call.message)
    /\ HasAfflictionCue(call.message)
    /\ call.result = "None"

-----------------------------------------------------------------------------
(* SpecNormalise: normalise_context applied to every generated payload,    *)
(* then applied again to its own result.                                   *)

InputKeys == {"source", "animal_id", "name", "age_years", "is_sick", "colour"}

InputValues ==
    {PyNone, PyStr(""), PyStr("  "), PyStr(" Gauri "), PyStr("6.0"), PyStr("11.23456"),
     PyStr("Yes"), PyStr("saved"), PyInt(0), PyInt(5), PyFloat(1250000),
     PyBool(TRUE), PyBool(FALSE), PyList("[]")}

RawContexts ==
    {RawOther} \cup
    {RawDict(items) :
        items \in UNION {[K -> InputValues] :
                            K \in {S \in SUBSET InputKeys : Cardinality(S) <= MaxKeys}}}

InitNormalise ==
    /\ InitDb
    /\ \E raw \in RawContexts :
           call = [op |-> "args", raw |-> raw, result |-> EmptyDict, again |-> EmptyDict]

CallNormalise ==
    /\ call.op = "args"
    /\ call' = [call EXCEPT !.op = "normalise_context",
                            !.result = normalise_context(call.raw)]
    /\ UNCHANGED <<sessions, messages, cattle, cattle_pk, web, last, embedding>>

CallNormaliseAgain ==
    /\ call.op = "normalise_context"
    /\ call' = [call EXCEPT !.op = "normalise_context_twice",
                            !.again = normalise_context(RawDict(call.result))]
    /\ UNCHANGED <<sessions, messages, cattle, cattle_pk, web, last, embedding>>

NextNormalise == CallNormalise \/ CallNormaliseAgain

SpecNormalise == InitNormalise /\ [][NextNormalise]_vars

\* C9: normalise_context is idempotent: for every input x (any mapping, and
\* any non-mapping), normalise_context(normalise_context(x)) equals
\* normalise_context(x).
C9_NormaliseIdempotent ==
    call.op = "normalise_context_twice" => PyDictEq(call.again, call.result)

\* C10: the result of normalise_context contains only allow-listed keys, no
\* key of the result maps to None or to an empty string, and a non-mapping
\* input yields the empty mapping.
C10_NormalisedPruned ==
    call.op = "normalise_context" =>
        /\ DOMAIN call.result \subseteq allowed_keys
        /\ \A k \in DOMAIN call.result : ~IsNoneOrEmpty(call.result[k])
        /\ (~call.raw.dict => call.result = EmptyDict)

-----------------------------------------------------------------------------
(* SpecAugment: augment_context_with_cattle applied, for each farmer, to   *)
(* the normalised form of every generated payload (views.py 67-68).        *)

AugmentKeys == {"animal_id", "name", "breed", "age_years", "milk_yield", "tag_number"}

\* Values of the payload: ids of both animals as text and numbers, ids that
\* do not parse or name no animal, and field values, blank ones included.
AugmentValues ==
    {PyStr("1"), PyStr("2"), PyStr(" 2 "), PyStr("1.0"), PyStr("abc"), PyStr("9"),
     PyInt(1), PyInt(0), PyFloat(150000), PyBool(TRUE),
     PyStr("Jersey"), PyStr("  "), PyStr("6.5")}

AugmentRaws ==
    {RawDict(items) :
        items \in UNION {[K -> AugmentValues] :
                            K \in {S \in SUBSET AugmentKeys : Cardinality(S) <= MaxKeys}}}

InitAugment ==
    /\ InitDb
    /\ \E raw \in AugmentRaws, user \in Farmers :
           call = [op |-> "args", user |-> user, context |-> normalise_context(raw),
                   result |-> EmptyDict]

CallAugment ==
    /\ call.op = "args"
    /\ call' = [call EXCEPT !.op = "augment_context_with_cattle",
                            !.result = augment_context_with_cattle(cattle, call.user,
                                                                   call.context)]
    /\ UNCHANGED <<sessions, messages, cattle, cattle_pk, web, last, embedding>>

NextAugment == CallAugment

SpecAugment == InitAugment /\ [][NextAugment]_vars

\* The animal records of `user` that the animal_id of `context` names.
OwnedAnimalOf(user, context) ==
    {c \in cattle :
        /\ c.owner = user
        /\ "animal_id" \in DOMAIN context
        /\ ~IsNoneOrEmpty(context["animal_id"])
        /\ ToInt(context["animal_id"]).ok
        /\ ToInt(context["animal_id"]).n = c.pk}

FarmerFields ==
    {"name", "tag_number", "breed", "age_years", "milk_yield", "last_vaccination_date"}

\* C11: augment_context_with_cattle never overwrites a farmer-supplied
\* field: for every non-empty context and every stored animal record found
\* for the owner, each of name, tag_number, breed, age_years, milk_yield and
\* last_vaccination_date that is present in the input context keeps its
\* input value in the result.
C11_FarmerFieldsKept ==
    (call.op = "augment_context_with_cattle" /\ OwnedAnimalOf(call.user, call.context) # {})
        => \A k \in FarmerFields \cap DOMAIN call.context :
               /\ k \in DOMAIN call.result
               /\ call.result[k] = call.context[k]

\* The values a record of the Cattle table can contribute to a context.
RecordValues(c) ==
    {PyInt(c.pk), PyStr("saved"), c.name, c.tag_number, c.breed, c.age_years,
     c.daily_milk_yield, c.last_vaccination_date}

\* C12: after augment_context_with_cattle(owner, context) the result
\* contains animal_id only if it is the id of an animal record owned by
\* owner; an animal_id that is unparsable, not found or owned by another
\* user is removed, and every entry of the result is an entry of the input
\* or a value of a record owned by owner.
C12_OnlyOwnedAnimals ==
    call.op = "augment_context_with_cattle" =>
        LET owned == {c \in cattle : c.owner = call.user}
            named == OwnedAnimalOf(call.user, call.context)
        IN  /\ "animal_id" \in DOMAIN call.result =>
                   \E c \in named : call.result["animal_id"] = PyInt(c.pk)
            /\ named = {} => "animal_id" \notin DOMAIN call.result
            /\ \A k \in DOMAIN call.result :
                   \/ k \in DOMAIN call.context /\ call.result[k] = call.context[k]
                   \/ \E c \in named : call.result[k] \in RecordValues(c)

\* C12 witness: farmer u1 sent the id of u2's animal; the id was removed and
\* the result holds nothing of u2's record.
C12_Witness ==
    /\ call.op = "augment_context_with_cattle"
    /\ call.user = "u1"
    /\ "animal_id" \in DOMAIN call.context
    /\ ToInt(call.context["animal_id"]).ok
    /\ ToInt(call.context["animal_id"]).n = 2
    /\ "breed" \in DOMAIN call.context
    /\ call.result = Pop(call.context, "animal_id")
    /\ "tag_number" \notin DOMAIN call.result

-----------------------------------------------------------------------------
(* SpecSource: normalise_context followed by augment_context_with_cattle,  *)
(* as chat_api lines 67-68 apply them, over payloads that may carry their  *)
(* own source field.                                                       *)

SourceKeys == {"source", "animal_id", "name"}

SourceValues ==
    {PyNone, PyStr("saved"), PyStr("manual"), PyStr("  "), PyStr("1"), PyStr("2"), PyInt(1)}

SourceRaws ==
    {RawOther} \cup
    {RawDict(items) :
        items \in UNION {[K -> SourceValues] :
                            K \in {S \in SUBSET SourceKeys : Cardinality(S) <= MaxKeys}}}

InitSource ==
    /\ InitDb
    /\ \E raw \in SourceRaws, user \in Farmers :
           call = [op |-> "args", user |-> user, raw |-> raw,
                   cleaned |-> EmptyDict, result |-> EmptyDict]

CallNormaliseSource ==
    /\ call.op = "args"
    /\ call' = [call EXCEPT !.op = "normalise_context",
                            !.cleaned = normalise_context(call.raw)]
    /\ UNCHANGED <<sessions, messages, cattle, cattle_pk, web, last, embedding>>

CallAugmentSource ==
    /\ call.op = "normalise_context"
    /\ call' = [call EXCEPT !.op = "augment_context_with_cattle",
                            !.result = augment_context_with_cattle(cattle, call.user,
                                                                   call.cleaned)]
    /\ UNCHANGED <<sessions, messages, cattle, cattle_pk, web, last, embedding>>

NextSource == CallNormaliseSource \/ CallAugmentSource

SpecSource == InitSource /\ [][NextSource]_vars

\* C33: after normalise_context followed by augment_context_with_cattle the
\* source field of a non-empty result is "saved" exactly when the result
\* holds the animal_id of a record verified as owned by the user, and
\* "manual" otherwise.
C33_SavedOnlyWhenVerified ==
    (call.op = "augment_context_with_cattle" /\ DOMAIN call.result # {}) =>
        /\ "source" \in DOMAIN call.result
        /\ IF /\ "animal_id" \in DOMAIN call.result
              /\ \E c \in cattle : c.owner = call.user
                                   /\ call.result["animal_id"] = PyInt(c.pk)
           THEN call.result["source"] = PyStr("saved")
           ELSE call.result["source"] = PyStr("manual")

-----------------------------------------------------------------------------
(* SpecGroq: call_groq_sync applied to every configuration, context and    *)
(* upstream outcome.                                                       *)

\* Line 369: the slice [:8]
HISTORY_LIMIT == 8

Reverse(seq) == [i \in 1..Len(seq) |-> seq[Len(seq) + 1 - i]]

RowsOfSession(table, session_id) ==
    LET RECURSIVE From(_)
        From(i) == IF i > Len(table) THEN << >>
                   ELSE IF table[i].session = session_id
                        THEN <<table[i]>> \o From(i + 1)
                        ELSE From(i + 1)
    IN  From(1)

\* Line 369: list(ChatMessage.objects.filter(session_id=session_id)
\*               .order_by("-created_at")[:8]), newest first
past_entries(table, session_id) ==
    LET newest_first == Reverse(RowsOfSession(table, session_id))
    IN  SubSeq(newest_first, 1,
               IF Len(newest_first) < HISTORY_LIMIT THEN Len(newest_first)
               ELSE HISTORY_LIMIT)

\* Lines 365-378: the newest entry is dropped when it is a user row with
\* the text of the current message; the rest is put in chronological order
\* with bot mapped to assistant.
history_messages(table, session_id, message) ==
    LET past == past_entries(table, session_id)
        kept == IF Len(past) > 0 /\ past[1].role = "user" /\ past[1].text = message
                THEN SubSeq(past, 2, Len(past)) ELSE past
        chronological == Reverse(kept)
    IN  IF session_id = 0 THEN << >>
        ELSE [i \in 1..Len(chronological) |->
                 [role |-> IF chronological[i].role = "bot" THEN "assistant" ELSE "user",
                  content |-> chronological[i].text]]

ApiKeys == {"", "test-key"}

GroqMessages == {"My cow has fever", "mastitis treatment"}

\* Payload contexts as chat_api passes them on: normalised and enriched for
\* farmer u1.
GroqRaws ==
    {RawOther, ContextMastitis,
     RawDict([k \in {"issue"} |-> PyInt(5)]),
     RawDict([k \in {"issue"} |-> PyBool(TRUE)]),
     RawDict([k \in {"issue"} |-> PyInt(0)]),
     RawDict([k \in {"name"} |-> PyInt(5)]),
     RawDict([k \in {"breed"} |-> PyInt(7)])}

GroqContexts ==
    {augment_context_with_cattle(InitCattle, "u1", normalise_context(raw)) : raw \in GroqRaws}

\* Bodies of a 200 response: not JSON, a JSON value that is no object, or an
\* object with or without choices, message, content, reply and text.
ResponseBodies ==
    {[json |-> j, choices |-> "absent", message |-> "absent", content |-> "None",
      reply |-> "None", text |-> "None"] : j \in {"invalid", "list", "string"}}
    \cup
    {[json |-> "object", choices |-> c.choices, message |-> c.message,
      content |-> c.content, reply |-> r, text |-> t] :
        c \in {[choices |-> ch, message |-> "absent", content |-> "None"] :
                  ch \in {"absent", "null", "empty", "string_item", "item"}}
              \cup {[choices |-> "item", message |-> "null", content |-> "None"]}
              \cup {[choices |-> "item", message |-> "object", content |-> x] :
                       x \in {"None", "", "Give clean water."}},
        r \in {"None", "", "Top-level reply"},
        t \in {"None", "", "Top-level text"}}

NoBody ==
    [json |-> "invalid", choices |-> "absent", message |-> "absent", content |-> "None",
     reply |-> "None", text |-> "None"]

UpstreamOutcomes ==
    {[kind |-> "transport_error", status |-> 0, body |-> NoBody]}
    \cup {[kind |-> "http_error", status |-> st, body |-> NoBody] : st \in HttpErrorStatuses}
    \cup {[kind |-> "ok", status |-> 200, body |-> b] : b \in ResponseBodies}

InitGroq ==
    /\ InitDb
    /\ \E api_key \in ApiKeys, message \in GroqMessages, context \in GroqContexts,
          upstream \in UpstreamOutcomes :
           call = [op |-> "args", api_key |-> api_key, message |-> message,
                   context |-> context, upstream |-> upstream,
                   result |-> GroqResponse("None", "None"), user_prompt |-> "None"]

CallGroq ==
    /\ call.op = "args"
    /\ call' = [call EXCEPT !.op = "call_groq_sync",
                            !.result = call_groq_sync(call.api_key, call.message,
                                                      call.context, call.upstream),
                            !.user_prompt =
                                IF \/ call.api_key = ""
                                   \/ context_summary_raises(call.context)
                                   \/ issue_lower_raises(call.context)
                                THEN "None"
                                ELSE user_prompt(call.message, call.context)]
    /\ UNCHANGED <<sessions, messages, cattle, cattle_pk, web, last, embedding>>

NextGroq == CallGroq

SpecGroq == InitGroq /\ [][NextGroq]_vars

\* C15: call_groq_sync never raises to its caller: for every configuration,
\* every context produced by normalise_context and
\* augment_context_with_cattle and every upstream outcome it returns a
\* GroqResponse whose reply is text with no error code, or whose reply is
\* None with an error code among config_missing, http_<status>,
\* request_failed, empty_response.
C15_GroqNeverRaises ==
    call.op = "call_groq_sync" =>
        /\ call.result.raised = "None"
        /\ \/ call.result.reply \notin {"None", ""} /\ call.result.error_code = "None"
           \/ call.result.reply = "None" /\ call.result.error_code \in GroqErrorCodes

\* The reply the parsing rule names for a parsed 200 body: the content of
\* the first choice when there is one and it is non-empty, else the
\* top-level reply, else the top-level text, else none.
PreferredReply(body) ==
    LET content == IF body.json = "object" /\ body.choices = "item"
                      /\ body.message = "object"
                   THEN body.content ELSE "None"
        reply == IF body.json = "object" THEN body.reply ELSE "None"
        text == IF body.json = "object" THEN body.text ELSE "None"
    IN  IF content \notin {"None", ""} THEN content
        ELSE IF reply \notin {"None", ""} THEN reply
        ELSE IF text \notin {"None", ""} THEN text
        ELSE "None"

\* The call reached the exchange and the upstream answered 200 with a body
\* that parsed as JSON.
ParsedResponse ==
    /\ call.op = "call_groq_sync"
    /\ call.api_key # ""
    /\ ~context_summary_raises(call.context)
    /\ ~issue_lower_raises(call.context)
    /\ call.upstream.kind = "ok"
    /\ call.upstream.body.json # "invalid"

\* C32: for a successful upstream response call_groq_sync returns
\* choices[0].message.content when it is non-empty, otherwise the top-level
\* reply, otherwise the top-level text; for every other shape of the
\* response it returns reply None with code empty_response.
C32_ReplyExtraction ==
    ParsedResponse =>
        LET preferred == PreferredReply(call.upstream.body)
        IN  call.result =
                IF preferred # "None" THEN GroqResponse(preferred, "None")
                ELSE GroqResponse("None", "empty_response")

-----------------------------------------------------------------------------
(* SpecFeedback: the two farmers chat through one browser session and any  *)
(* logged-in user posts feedback bodies, well-formed or not, until the     *)
(* ChatMessage table holds MaxMessages rows.                               *)

\* Bodies that int() or the parser rejects or coerces: not an object, no
\* fields, null and non-numeric values, a numeric string, a float, a bool.
OddPayloads ==
    {RawOther, RawDict(EmptyDict),
     FeedbackPayload(PyNone, PyInt(1)),
     FeedbackPayload(PyInt(2), PyNone),
     FeedbackPayload(PyInt(2), PyStr("good")),
     FeedbackPayload(PyStr("2"), PyStr("-1")),
     FeedbackPayload(PyInt(2), PyFloat(19 * (FloatScale \div 10))),
     FeedbackPayload(PyInt(2), PyBool(TRUE))}

\* Bodies with integer fields: every row and one row too many, valid scores
\* and an invalid one.
FeedbackPayloads ==
    OddPayloads \cup
    {FeedbackPayload(PyInt(mid), PyInt(fb)) :
        mid \in 1..(Len(messages) + 1), fb \in {-1, 0, 1, 2}}

FeedbackChat ==
    \E user \in Farmers, message \in {"Hello", "tractor price "}, groq \in GroqOutcomes :
        /\ Len(messages) + 2 <= MaxMessages
        /\ ChatApi("w1", user, [message |-> message, context |-> RawOther], "pass", groq, GeoUnconfigured)

FeedbackCall ==
    \E user \in Users, payload \in FeedbackPayloads : Feedback(user, payload)

NextFeedback == FeedbackChat \/ FeedbackCall

SpecFeedback == Init /\ [][NextFeedback]_vars

\* C20: the feedback endpoint changes a message's feedback value only when
\* the target exists, is a bot message, belongs to a session owned by the
\* requester and the score is one of -1, 0, 1, and then changes nothing
\* else; every other outcome (invalid payload, not_found, forbidden, invalid
\* score) leaves all stored state unchanged.  So every stored feedback value
\* is in {-1, 0, 1} and every row was last written by the owner of its
\* session.
C20_FeedbackOnlyByOwner ==
    [][ /\ last'.op = "feedback" =>
              /\ sessions' = sessions
              /\ web' = web
              /\ cattle' = cattle
              /\ DOMAIN messages' = DOMAIN messages
              /\ ~last'.ok => messages' = messages
              /\ \A i \in DOMAIN messages :
                     messages'[i] # messages[i] =>
                        /\ last'.ok
                        /\ messages[i].role = "bot"
                        /\ messages'[i].by = sessions[messages[i].session].user
                        /\ messages'[i] =
                              [messages[i] EXCEPT !.feedback = messages'[i].feedback]
        /\ \A i \in DOMAIN messages' :
              /\ messages'[i].feedback \in {-1, 0, 1}
              /\ messages'[i].role = "user" => messages'[i].feedback = 0
              /\ messages'[i].by = sessions'[messages'[i].session].user
      ]_vars

\* C20 witness: both farmers have a session with a bot message; the last
\* request was a successful feedback request, one bot message carries the
\* score -1 and the other farmer's bot message is still unrated.
C20_Witness ==
    /\ last.op = "feedback"
    /\ last.ok
    /\ \E i, j \in DOMAIN messages :
          /\ messages[i].role = "bot"
          /\ messages[j].role = "bot"
          /\ messages[i].feedback = -1
          /\ messages[j].feedback = 0
          /\ sessions[messages[i].session].user # sessions[messages[j].session].user

-----------------------------------------------------------------------------
(* SpecDoctor: the farmers chat through one browser session, with and      *)
(* without an animal context, and any logged-in user opens the doctors'    *)
(* chat history, until the ChatMessage table holds MaxMessages rows.  The  *)
(* session table starts empty or with one session of the doctor, who       *)
(* chatted while holding the farmer role (the admin site edits the roles). *)

InitDoctor ==
    /\ sessions \in {<< >>, <<[user |-> "u3", context |-> EmptyDict]>>}
    /\ messages = << >>
    /\ cattle = InitCattle
    /\ cattle_pk = 2
    /\ web = [w \in WebSessions |-> [chatbot_session_id |-> 0, location |-> ""]]
    /\ last = NoRequest
    /\ embedding = InitEmbedding
    /\ call = NoCall

DoctorChat ==
    \E user \in Farmers, message \in {"Hello", "tractor price "},
       context \in RequestContexts, groq \in GroqOutcomes :
        /\ Len(messages) + 2 <= MaxMessages
        /\ ChatApi("w1", user, [message |-> message, context |-> context], "pass", groq, GeoUnconfigured)

DoctorHistoryRequest == \E user \in Users : DoctorChatHistory(user)

NextDoctor == DoctorChat \/ DoctorHistoryRequest

SpecDoctor == InitDoctor /\ [][NextDoctor]_vars

\* C26: doctor_chat_history shows session data only to users with the
\* doctor role (any other user is redirected and sees none); for a doctor
\* it lists every session owned by a farmer exactly once, and no other,
\* each with its stored context, its messages in creation order, and
\* message_count equal to the number of messages of that session.
C26_DoctorSeesFarmerSessions ==
    last.op = "doctor_chat_history" =>
        LET data == last.session_data
        IN  IF last.user \notin Doctors
            THEN last.status = 302 /\ data = << >>
            ELSE /\ last.status = 200
                 /\ \A sid \in DOMAIN sessions :
                       Cardinality({i \in DOMAIN data : data[i].session = sid}) =
                           IF sessions[sid].user \in Farmers THEN 1 ELSE 0
                 /\ \A i \in DOMAIN data :
                       LET sid == data[i].session
                           mine == data[i].messages
                       IN  /\ sid \in DOMAIN sessions
                           /\ data[i].context = sessions[sid].context
                           /\ data[i].message_count = Cardinality(MessagesIn(messages, sid))
                           /\ {mine[k] : k \in DOMAIN mine} = MessagesIn(messages, sid)
                           /\ \A j, k \in DOMAIN mine : j < k => mine[j] < mine[k]

\* C26 witness: the doctor opened the history and saw sessions of both
\* farmers, one of them with an animal context and two messages, while the
\* doctor's own session is in the table and not listed.
C26_Witness ==
    /\ last.op = "doctor_chat_history"
    /\ last.user \in Doctors
    /\ \E sid \in DOMAIN sessions : sessions[sid].user \in Doctors
    /\ {last.session_data[i].farmer : i \in DOMAIN last.session_data} = Farmers
    /\ \E i \in DOMAIN last.session_data :
          /\ DOMAIN last.session_data[i].context # {}
          /\ last.session_data[i].message_count = 2

-----------------------------------------------------------------------------
(* SpecCattle: manage_cattle requests of any logged-in user, until the     *)
(* Cattle table has given out MaxCattle primary keys.                      *)

\* The keys of a request: every key given out so far, the next one, and a
\* text that is no number.
CattleKeys == {PyStr(IntToStr(pk)) : pk \in 1..(cattle_pk + 1)} \cup {PyStr("abc")}

\* Values a valid CattleForm cleans.
CleanedForms ==
    {[name |-> PyStr("Ganga"), tag_number |-> PyStr("T-200"), breed |-> PyStr("Gir"),
      age_years |-> age_years, daily_milk_yield |-> PyFloat(1550000),
      last_vaccination_date |-> PyNone] : age_years \in {PyInt(4), PyInt(7)}}

DeleteRequest == \E user \in Users, delete_id \in CattleKeys : DeleteCattle(user, delete_id)

SaveRequest ==
    \E user \in Users, cattle_id \in CattleKeys \cup {PyStr("")},
       cleaned \in CleanedForms, valid \in BOOLEAN :
        SaveCattle(user, cattle_id, cleaned, valid)

ShowRequest == \E user \in Users, edit_id \in CattleKeys \cup {PyStr("")} : ShowCattle(user, edit_id)

NextCattle == DeleteRequest \/ SaveRequest \/ ShowRequest

SpecCattle == Init /\ [][NextCattle]_vars

\* C27: manage_cattle lets a user add, update and delete only their own
\* animals: in every manage_cattle request an animal record is modified or
\* deleted only when the requester is its owner, every record created or
\* saved by the request is owned by the requester, and a primary key stays
\* with one record.
C27_OwnCattleOnly ==
    [][ /\ \A c \in cattle \ cattle' : c.owner = last'.user
        /\ \A c \in cattle' \ cattle : c.owner = last'.user
        /\ \A c, d \in cattle' : c.pk = d.pk => c = d
      ]_vars

\* C27 witness: u1's animal was edited by u1, u2's animal was deleted, the
\* doctor added an animal, and the last request, a POST for an animal that
\* is not the requester's, was answered 404.
C27_Witness ==
    /\ last.op = "manage_cattle"
    /\ last.method = "POST"
    /\ last.status = 404
    /\ \E c \in cattle : c.pk = 1 /\ c.owner = "u1" /\ c.name = PyStr("Ganga")
    /\ ~\E c \in cattle : c.pk = 2
    /\ \E c \in cattle : c.pk = 3 /\ c.owner = "u3"

-----------------------------------------------------------------------------
(* SpecResubmit: chat_api requests of the farmers that carry no context or *)
(* the payload naming animal 1, between manage_cattle requests that edit   *)
(* or delete that animal, until the ChatMessage table holds MaxMessages    *)
(* rows.                                                                   *)

ResubmitContexts == {RawOther, ContextMastitis}

ContextChatRequest ==
    \E user \in Farmers, message \in {"  ", "tractor price "}, context \in ResubmitContexts,
       emb \in {"pass", "fail"}, groq \in GroqOutcomes :
        /\ Len(messages) + 2 <= MaxMessages
        /\ ChatApi("w1", user, [message |-> message, context |-> context], emb, groq,
                   GeoUnconfigured)

EditAnimalRequest ==
    \E user \in Farmers, cleaned \in CleanedForms :
        SaveCattle(user, PyStr("1"), cleaned, TRUE)

DeleteAnimalRequest == \E user \in Farmers : DeleteCattle(user, PyStr("1"))

NextResubmit == ContextChatRequest \/ EditAnimalRequest \/ DeleteAnimalRequest

SpecResubmit == Init /\ [][NextResubmit]_vars

\* The raw payload behind a resolved context: of the two payloads of
\* SpecResubmit only ContextMastitis resolves to a context that is not
\* empty, whatever the Cattle table holds (its "issue" is always kept).
RawOf(context) == IF DOMAIN context = {} THEN RawOther ELSE ContextMastitis

\* C39: a request that re-submits the raw context payload from which the
\* active session was created continues that session and creates none,
\* whatever requests came in between, edits and deletion of the named
\* animal through manage_cattle included.
C39_ResubmitContinuesSession ==
    [][ ( /\ AcceptedChatStep
          /\ StoredSessionOf(last'.web, last'.user)
          /\ RawOf(last'.incoming_context)
                = RawOf(sessions[web[last'.web].chatbot_session_id].context) )
        => ( /\ last'.session_id = web[last'.web].chatbot_session_id
             /\ sessions' = sessions )
      ]_vars

-----------------------------------------------------------------------------
(* SpecLocation: a farmer chats through one browser session while the geo  *)
(* lookup is unconfigured, fails, or answers with a payload, until the     *)
(* ChatMessage table holds MaxMessages rows.                               *)

GeoDict(country_key, country, state, city) ==
    [kind |-> "dict",
     data |-> [k \in {country_key, "region", "city"} |->
                  IF k = country_key THEN country ELSE IF k = "region" THEN state ELSE city]]

GeoText(text) == [kind |-> "str", text |-> text]

\* Answers of the lookup: places in India and abroad, fields that are
\* unknown, and fields and texts that echo the client's address.
GeoPayloads ==
    {GeoDict("country", "India", "Gujarat", "Anand"),
     GeoDict("country_code", "IN", "unknown", CLIENT_IP),
     GeoDict("country", "india " \o CLIENT_IP, "gujarat 12", ""),
     GeoDict("country_name", "Nepal", "Bagmati", "Kathmandu"),
     GeoDict("country", CLIENT_IP, "Kerala", "Kochi"),
     GeoText("Anand, Gujarat, India"),
     GeoText("ip " \o CLIENT_IP \o ", Kerala, IN"),
     GeoText(CLIENT_IP),
     [kind |-> "none"]}

GeoOutcomes ==
    {GeoUnconfigured, GeoRaises, GeoNotOk} \cup {GeoAnswers(payload) : payload \in GeoPayloads}

LocationRequest ==
    \E message \in {"Hello", "My cow has fever"}, groq \in GroqOutcomes, geo \in GeoOutcomes :
        /\ Len(messages) + 2 <= MaxMessages
        /\ ChatApi("w1", "u1", [message |-> message, context |-> RawOther], "pass", groq, geo)

NextLocation == LocationRequest

SpecLocation == Init /\ [][NextLocation]_vars

\* C25: the location stored on every message is the label cached in the
\* web session, never the client's IP address: when no geo-lookup endpoint
\* is configured or the lookup fails, the label is the default location
\* label, and once a label is cached every later message of that web
\* session is stored with the same label.
C25_LocationIsCachedLabel ==
    [][ AcceptedChatStep =>
          LET w == last'.web
              label == web'[w].location
          IN  /\ label # ""
              /\ ~Contains(CLIENT_IP, label)
              /\ \A i \in (Len(messages) + 1)..Len(messages') :
                    messages'[i].location = label
              /\ web[w].location # "" => label = web[w].location
              /\ (web[w].location = "" /\ last'.geo \in {"unconfigured", "raised", "not_ok"})
                    => label = DEFAULT_LOCATION_LABEL
      ]_vars

\* C25 witness: the first lookup named a place, the lookup of a later
\* request failed, and all rows of the full table carry the first label.
C25_Witness ==
    /\ web["w1"].location = "Anand, Gujarat, India"
    /\ last.op = "chat_api"
    /\ last.geo = "raised"
    /\ Len(messages) = MaxMessages
    /\ \A i \in DOMAIN messages : messages[i].location = "Anand, Gujarat, India"

-----------------------------------------------------------------------------
(* SpecBeautify: beautify_reply applied to replies of up to MaxFragments   *)
(* pieces joined by a blank, two blanks, a line break or a blank line.     *)

ReplyPieces == {"Check the udder.", "Apply antiseptic!", "Watch for fever"}

ReplySeparators == {" ", "  ", "\n", "\n\n"}

RECURSIVE RepliesOf(_)
RepliesOf(n) ==
    IF n = 0 THEN {}
    ELSE IF n = 1 THEN ReplyPieces
    ELSE LET shorter == RepliesOf(n - 1)
         IN  shorter \cup
             {r \o sep \o piece : r \in shorter, sep \in ReplySeparators, piece \in ReplyPieces}

Replies == RepliesOf(MaxFragments)

InitBeautify ==
    /\ InitDb
    /\ \E text \in Replies : call = [op |-> "args", text |-> text, result |-> ""]

CallBeautify ==
    /\ call.op = "args"
    /\ call' = [call EXCEPT !.op = "beautify_reply", !.result = beautify_reply(call.text)]
    /\ UNCHANGED <<sessions, messages, cattle, cattle_pk, web, last, embedding>>

NextBeautify == CallBeautify

SpecBeautify == InitBeautify /\ [][NextBeautify]_vars

\* The lines of s.
Lines(s) ==
    PiecesFrom(s, 1, {<<i, i>> : i \in {k \in 1..Len(s) : Char(s, k) = "\n"}})

\* The paragraphs of a text (separated by blank lines) and the sentences of
\* a paragraph (separated by white space after ".", "!" or "?").
ParagraphsOf(text) == StripAll(SplitParagraphs(CollapseBlanks(Strip(text))))

SentencesOf(paragraph) == StripAll(SplitSentences(paragraph))

\* C24: beautify_reply turns each paragraph of n >= 2 sentences into n
\* lines, the first sentence unchanged as lead line followed by one
\* "- "-prefixed line per remaining sentence in order, and leaves a
\* single-sentence paragraph unchanged.
C24_LeadAndBullets ==
    call.op = "beautify_reply" =>
        LET before == ParagraphsOf(call.text)
            after == SplitParagraphs(call.result)
        IN  /\ Len(after) = Len(before)
            /\ \A p \in 1..Len(before) :
                  LET sentences == SentencesOf(before[p])
                      n == Len(sentences)
                  IN  IF n >= 2
                      THEN Lines(after[p]) =
                             [i \in 1..n |-> IF i = 1 THEN sentences[1]
                                             ELSE "- " \o sentences[i]]
                      ELSE after[p] = before[p]

-----------------------------------------------------------------------------
(* SpecHistory: a session with up to MaxPrior stored messages receives a   *)
(* message; chat_api stores it (views.py line 100) and call_groq_sync      *)
(* builds the history of the LLM request from the table.                   *)

HistoryQuestions == {"How much fodder?", "m2"}

\* Row i of the table before the request: the rows alternate between the
\* farmer and the bot; with `mixed` every third row belongs to another
\* session; with `retry` the last row is the farmer's own earlier copy of
\* the current message.
PriorRow(i, n, message, mixed, retry) ==
    [session |-> IF mixed /\ i % 3 = 2 THEN 2 ELSE 1,
     role |-> IF retry /\ i = n THEN "user" ELSE IF i % 2 = 1 THEN "user" ELSE "bot",
     text |-> IF retry /\ i = n THEN message ELSE "m" \o IntToStr(i),
     location |-> DEFAULT_LOCATION_LABEL, feedback |-> 0, by |-> "u1"]

PriorTables(message) ==
    {[i \in 1..n |-> PriorRow(i, n, message, mixed, retry)] :
        n \in 0..MaxPrior, mixed \in BOOLEAN, retry \in BOOLEAN}

InitHistory ==
    /\ InitDb
    /\ \E message \in HistoryQuestions :
         \E prior \in PriorTables(message) :
            call = [op |-> "args", prior |-> prior, session_id |-> 1,
                    message |-> message, table |-> prior, history |-> << >>]

\* views.py line 100, then services.py lines 365-378.
CallHistory ==
    /\ call.op = "args"
    /\ LET user_row == [session |-> call.session_id, role |-> "user",
                        text |-> call.message, location |-> DEFAULT_LOCATION_LABEL,
                        feedback |-> 0, by |-> "u1"]
           table == objects_create(call.prior, user_row)
       IN  call' = [call EXCEPT !.op = "history", !.table = table,
                      !.history = history_messages(table, call.session_id, call.message)]
    /\ UNCHANGED <<sessions, messages, cattle, cattle_pk, web, last, embedding>>

NextHistory == CallHistory

SpecHistory == InitHistory /\ [][NextHistory]_vars

\* The messages of the session that precede the current user message, in
\* chronological order, as role/content entries.
PriorEntries(prior, session_id) ==
    LET rows == RowsOfSession(prior, session_id)
    IN  [i \in 1..Len(rows) |->
            [role |-> IF rows[i].role = "bot" THEN "assistant" ELSE "user",
             content |-> rows[i].text]]

\* C22: the history sent to the LLM consists of the up-to-8 most recent
\* messages of the session that precede the current user message (the
\* just-persisted copy of the current message is excluded), in chronological
\* order; with 8 or more prior messages the request carries exactly 8
\* history entries.
C22_HistoryIsEightPrior ==
    call.op = "history" =>
        LET before == PriorEntries(call.prior, call.session_id)
            n == Len(before)
        IN  /\ call.history = SubSeq(before, IF n > 8 THEN n - 7 ELSE 1, n)
            /\ n >= 8 => Len(call.history) = 8

-----------------------------------------------------------------------------
(* SpecConcurrent: two chat_api requests of farmer u1 that arrive with the *)
(* same browser session while its stored chat session exists.  No          *)
(* transaction or lock spans the handler (settings.py sets no              *)
(* ATOMIC_REQUESTS), so a step is one statement that reads or writes the   *)
(* database; request.session is loaded when the request starts and saved   *)
(* when it ends.  call.req[r] holds the local variables of request r.      *)

Requests == {"r1", "r2"}

\* The stripped message of each request; no other row carries these texts.
RequestMessage == [r \in Requests |-> IF r = "r1" THEN "My cow has fever" ELSE "tractor price"]

\* The semantic filter answers below the threshold for both requests.
ConcurrentEmbedding == "fail"

TulsiContext == augment_context_with_cattle(InitCattle, "u1", NormaliseTable[ContextTulsi])

\* user_prompt of each request's message, looked up.
UserPromptTable ==
    [r \in Requests, context \in KnownContexts |->
        user_prompt(RequestMessage[r], context)] @@ << >>

\* The state a first request "Hello" of u1 leaves behind, sent without or
\* with animal context: one session, the user message and the greeting.
InitConcurrent ==
    /\ \E context \in {EmptyDict, TulsiContext} :
          /\ sessions = <<[user |-> "u1", context |-> context]>>
          /\ messages =
                <<[session |-> 1, role |-> "user", text |-> "Hello",
                   location |-> DEFAULT_LOCATION_LABEL, feedback |-> 0, by |-> "u1"],
                  [session |-> 1, role |-> "bot", text |-> GreetingReply(context),
                   location |-> DEFAULT_LOCATION_LABEL, feedback |-> 0, by |-> "u1"]>>
    /\ cattle = InitCattle
    /\ cattle_pk = 2
    /\ web = [w \in WebSessions |-> [chatbot_session_id |-> 1,
                                     location |-> DEFAULT_LOCATION_LABEL]]
    /\ last = NoRequest
    /\ embedding = InitEmbedding
    /\ \E raws \in [Requests -> RequestContexts] :
          call = [op |-> "concurrent",
                  req |-> [r \in Requests |->
                      [pc |-> "start", message |-> RequestMessage[r], raw |-> raws[r],
                       store |-> web["w1"], modified |-> FALSE, sid |-> 0,
                       session_context |-> EmptyDict, incoming_context |-> EmptyDict,
                       context |-> EmptyDict,
                       llm_messages |-> << >>, reply |-> "None", status |-> 0]]]

AtLine(r, pc) == call.op = "concurrent" /\ call.req[r].pc = pc

\* Lines 59-65: request.session as loaded for this request names the stored
\* session; the row is read, or a session is created and named.
ResolveStep(r) ==
    /\ AtLine(r, "start")
    /\ IF SessionUsable(sessions, web["w1"].chatbot_session_id, "u1")
       THEN /\ call' = [call EXCEPT
                   !.req[r].pc = "line67", !.req[r].store = web["w1"],
                   !.req[r].sid = web["w1"].chatbot_session_id,
                   !.req[r].session_context =
                       sessions[web["w1"].chatbot_session_id].context]
            /\ UNCHANGED sessions
       ELSE /\ sessions' = Append(sessions, [user |-> "u1", context |-> EmptyDict])
            /\ call' = [call EXCEPT
                   !.req[r].pc = "line67",
                   !.req[r].store = [web["w1"] EXCEPT !.chatbot_session_id =
                                                          Len(sessions) + 1],
                   !.req[r].modified = TRUE,
                   !.req[r].sid = Len(sessions) + 1,
                   !.req[r].session_context = EmptyDict]
    /\ UNCHANGED <<messages, cattle, cattle_pk, web, last, embedding>>

\* Lines 70-73: the incoming context is compared with the context of the
\* row as it was read; only when they differ is the message table asked
\* whether the session has messages.
CompareWith(r, local, incoming_context) ==
    call' = [call EXCEPT
        !.req[r].pc = IF DOMAIN incoming_context # {}
                         /\ ~PyDictEq(local.session_context, incoming_context)
                      THEN IF HasMessages(messages, local.sid) THEN "line74" ELSE "line77"
                      ELSE "line100",
        !.req[r].incoming_context = incoming_context,
        !.req[r].context = IF DOMAIN incoming_context # {} THEN incoming_context
                           ELSE local.session_context]

\* Lines 67-68: the incoming context is normalised and enriched.
CompareStep(r) ==
    /\ AtLine(r, "line67")
    /\ CompareWith(r, call.req[r],
                   augment_context_with_cattle(cattle, "u1", NormaliseTable[call.req[r].raw]))
    /\ UNCHANGED <<sessions, messages, cattle, cattle_pk, web, last, embedding>>

\* Lines 74-75: a new session with the incoming context.
ForkStep(r) ==
    /\ AtLine(r, "line74")
    /\ sessions' = Append(sessions, [user |-> "u1",
                                     context |-> call.req[r].incoming_context])
    /\ call' = [call EXCEPT
           !.req[r].pc = "line100", !.req[r].sid = Len(sessions) + 1,
           !.req[r].store.chatbot_session_id = Len(sessions) + 1,
           !.req[r].modified = TRUE]
    /\ UNCHANGED <<messages, cattle, cattle_pk, web, last, embedding>>

\* Lines 77-78: session.save(update_fields=["context"]) writes the context
\* column of the row, whatever the message table holds by now.
SaveStep(r) ==
    /\ AtLine(r, "line77")
    /\ sessions' = [sessions EXCEPT ![call.req[r].sid].context =
                                         call.req[r].incoming_context]
    /\ call' = [call EXCEPT !.req[r].pc = "line100"]
    /\ UNCHANGED <<messages, cattle, cattle_pk, web, last, embedding>>

\* Lines 100-121: the user message is stored; a greeting, a refusal and
\* the scope reply need no further read.
InsertUserWith(r, local, location_label, decision) ==
    /\ messages' = objects_create(messages,
           [session |-> local.sid, role |-> "user", text |-> local.message,
            location |-> location_label, feedback |-> 0, by |-> "u1"])
    /\ call' = [call EXCEPT
           !.req[r].pc = IF decision.kind = "llm" THEN "line123" ELSE "line142",
           !.req[r].reply =
               CASE decision.kind = "greeting" ->
                        GreetingReply(IF DOMAIN local.context # {}
                                      THEN local.context ELSE EmptyDict)
                 [] decision.kind = "refusal" -> build_refusal_reply(decision.reason)
                 [] decision.kind = "scope" -> SCOPE_REPLY
                 [] decision.kind = "llm" -> "None"]

\* Lines 83-99: the flags of the message and the location label.
InsertUserStep(r) ==
    /\ AtLine(r, "line100")
    /\ InsertUserWith(r, call.req[r],
                      get_location_label(call.req[r].store.location, GeoUnconfigured),
                      Decide(call.req[r].message, DOMAIN call.req[r].context # {},
                             BovineHintTable[call.req[r].message],
                             KeywordTable[call.req[r].message],
                             EmbeddingPass(ConcurrentEmbedding)))
    /\ UNCHANGED <<sessions, cattle, cattle_pk, web, last, embedding>>

\* Lines 380-391 and views.py 129-139: the messages of the request (the
\* system prompt left out) are the history and the prompt; without a reply
\* the request ends with the error response.
CallLlmWith(r, local, groq, history) ==
    call' = [call EXCEPT
        !.req[r].llm_messages =
            Append(history, [role |-> "user",
                             content |-> UserPromptTable[r, local.context]]),
        !.req[r].pc = IF groq.reply = "None" THEN "response" ELSE "line142",
        !.req[r].reply = IF groq.reply = "None" THEN "None" ELSE BeautifyTable[groq.reply],
        !.req[r].status = IF groq.reply = "None" THEN 502 ELSE 0]

\* Lines 123-128 with services.py 365-378: call_groq_sync reads the newest
\* rows of the session as they are now.
CallLlmStep(r) ==
    /\ AtLine(r, "line123")
    /\ \E groq \in GroqOutcomes :
          CallLlmWith(r, call.req[r], groq,
                      history_messages(messages, call.req[r].sid, call.req[r].message))
    /\ UNCHANGED <<sessions, messages, cattle, cattle_pk, web, last, embedding>>

\* Lines 104, 110, 118, 142: the bot message is stored.
InsertBotStep(r) ==
    /\ AtLine(r, "line142")
    /\ messages' = objects_create(messages,
           [session |-> call.req[r].sid, role |-> "bot", text |-> call.req[r].reply,
            location |-> get_location_label(call.req[r].store.location, GeoUnconfigured),
            feedback |-> 0, by |-> "u1"])
    /\ call' = [call EXCEPT !.req[r].pc = "response", !.req[r].status = 200]
    /\ UNCHANGED <<sessions, cattle, cattle_pk, web, last, embedding>>

\* The response leaves the handler; the session middleware saves
\* request.session when the handler modified it.
RespondStep(r) ==
    /\ AtLine(r, "response")
    /\ web' = IF call.req[r].modified THEN [web EXCEPT !["w1"] = call.req[r].store]
              ELSE web
    /\ call' = [call EXCEPT !.req[r].pc = "done"]
    /\ UNCHANGED <<sessions, messages, cattle, cattle_pk, last, embedding>>

\* chatbot/admin.py: ChatMessageAdmin keeps the delete permission of
\* ModelAdmin; a staff user deletes the messages of a session.
AdminDeleteMessages ==
    /\ call.op = "concurrent"
    /\ \E sid \in DOMAIN sessions :
          /\ HasMessages(messages, sid)
          /\ messages' = SelectSeq(messages, LAMBDA row : row.session # sid)
    /\ UNCHANGED <<sessions, cattle, cattle_pk, web, last, call, embedding>>

NextConcurrent ==
    \/ \E r \in Requests : ResolveStep(r)
    \/ \E r \in Requests : CompareStep(r)
    \/ \E r \in Requests : ForkStep(r)
    \/ \E r \in Requests : SaveStep(r)
    \/ \E r \in Requests : InsertUserStep(r)
    \/ \E r \in Requests : CallLlmStep(r)
    \/ \E r \in Requests : InsertBotStep(r)
    \/ \E r \in Requests : RespondStep(r)
    \/ AdminDeleteMessages

SpecConcurrent == InitConcurrent /\ [][NextConcurrent]_vars

\* C34: with two chat_api requests for the same session in flight, the
\* context of a session that has at least one message is never modified: no
\* insert of another request comes between the test that the session has no
\* messages and the update of its context.
C34_ContextFrozenUnderConcurrency ==
    [][ \A sid \in DOMAIN sessions :
            (call.op = "concurrent" /\ HasMessages(messages, sid))
                => sessions'[sid].context = sessions[sid].context
      ]_vars

\* C35: the current user message appears exactly once in the LLM request
\* that answers it, as its final entry: the copy chat_api stored before the
\* call is not among the history entries, whatever the interleaving of the
\* requests on the session.
C35_CurrentMessageOnce ==
    \A r \in Requests :
        (call.op = "concurrent" /\ call.req[r].llm_messages # << >>) =>
            LET sent == call.req[r].llm_messages
                message == call.req[r].message
            IN  /\ sent[Len(sent)] =
                       [role |-> "user",
                        content |-> user_prompt(message, call.req[r].context)]
                /\ \A i \in 1..(Len(sent) - 1) :
                       ~(sent[i].role = "user" /\ sent[i].content = message)

-----------------------------------------------------------------------------
(* SpecEmbedding: the threads of one process call is_cattle_related, each  *)
(* once; a step is one line of _load_model.  The model and the embeddings  *)
(* are named after the thread that created them.                           *)

At(t, line) == embedding.pc[t] = line

Goto(t, line) == [embedding.pc EXCEPT ![t] = line]

\* Line 64: is_cattle_related(query) with a non-empty query enters _load_model.
EnterLoadModel(t) ==
    /\ At(t, "idle")
    /\ embedding' = [embedding EXCEPT !.pc = Goto(t, "line45")]
    /\ UNCHANGED <<sessions, messages, cattle, cattle_pk, web, last, call>>

\* Line 45: if _model is None
CheckModel(t) ==
    /\ At(t, "line45")
    /\ embedding' =
          IF embedding._model = Unset
          THEN [embedding EXCEPT !.pc = Goto(t, "line46"),
                                 !.contended = embedding.contended \cup {t}]
          ELSE [embedding EXCEPT !.pc = Goto(t, "line53")]
    /\ UNCHANGED <<sessions, messages, cattle, cattle_pk, web, last, call>>

\* Line 46: with _model_lock
LockForModel(t) ==
    /\ At(t, "line46")
    /\ embedding._model_lock = Unset
    /\ embedding' = [embedding EXCEPT !.pc = Goto(t, "line47"), !._model_lock = By(t)]
    /\ UNCHANGED <<sessions, messages, cattle, cattle_pk, web, last, call>>

\* A second test that is left out.
ModelUnset_unchecked(m) == TRUE

\* Line 47: if _model is None (inside the lock)
ModelUnset(m) == m = Unset

\* Line 47: the second test; the lock is released when the block is left.
RecheckModel(t) ==
    /\ At(t, "line47")
    /\ embedding' =
          IF ModelUnset(embedding._model)
          THEN [embedding EXCEPT !.pc = Goto(t, "line52")]
          ELSE [embedding EXCEPT !.pc = Goto(t, "line53"), !._model_lock = Unset]
    /\ UNCHANGED <<sessions, messages, cattle, cattle_pk, web, last, call>>

\* Line 52: _model = SentenceTransformer(...); the constructor returns, or
\* it raises and the exception leaves is_cattle_related.
ConstructModel(t) ==
    /\ At(t, "line52")
    /\ \/ embedding' = [embedding EXCEPT !.pc = Goto(t, "line53"), !._model = By(t),
                                          !.constructed = embedding.constructed + 1,
                                          !._model_lock = Unset]
       \/ embedding' = [embedding EXCEPT !.pc = Goto(t, "raised"), !._model_lock = Unset]
    /\ UNCHANGED <<sessions, messages, cattle, cattle_pk, web, last, call>>

\* Line 53: if _topic_embeddings is None
CheckEmbeddings(t) ==
    /\ At(t, "line53")
    /\ embedding' =
          IF embedding._topic_embeddings = Unset
          THEN [embedding EXCEPT !.pc = Goto(t, "line54")]
          ELSE [embedding EXCEPT !.pc = Goto(t, "line57")]
    /\ UNCHANGED <<sessions, messages, cattle, cattle_pk, web, last, call>>

\* Line 54: with _model_lock
LockForEmbeddings(t) ==
    /\ At(t, "line54")
    /\ embedding._model_lock = Unset
    /\ embedding' = [embedding EXCEPT !.pc = Goto(t, "line55"), !._model_lock = By(t)]
    /\ UNCHANGED <<sessions, messages, cattle, cattle_pk, web, last, call>>

\* Line 55: if _topic_embeddings is None (inside the lock)
RecheckEmbeddings(t) ==
    /\ At(t, "line55")
    /\ embedding' =
          IF embedding._topic_embeddings = Unset
          THEN [embedding EXCEPT !.pc = Goto(t, "line56")]
          ELSE [embedding EXCEPT !.pc = Goto(t, "line57"), !._model_lock = Unset]
    /\ UNCHANGED <<sessions, messages, cattle, cattle_pk, web, last, call>>

\* Line 56: _topic_embeddings = _model.encode(...); returns, or raises.
EncodeTopics(t) ==
    /\ At(t, "line56")
    /\ \/ embedding' = [embedding EXCEPT !.pc = Goto(t, "line57"),
                                          !._topic_embeddings = By(t),
                                          !.encoded = embedding.encoded + 1,
                                          !._model_lock = Unset]
       \/ embedding' = [embedding EXCEPT !.pc = Goto(t, "raised"), !._model_lock = Unset]
    /\ UNCHANGED <<sessions, messages, cattle, cattle_pk, web, last, call>>

\* Line 57: return _model, _topic_embeddings
ReturnLoaded(t) ==
    /\ At(t, "line57")
    /\ embedding' = [embedding EXCEPT !.pc = Goto(t, "returned")]
    /\ UNCHANGED <<sessions, messages, cattle, cattle_pk, web, last, call>>

NextEmbedding ==
    \/ \E t \in Threads : EnterLoadModel(t)
    \/ \E t \in Threads : CheckModel(t)
    \/ \E t \in Threads : LockForModel(t)
    \/ \E t \in Threads : RecheckModel(t)
    \/ \E t \in Threads : ConstructModel(t)
    \/ \E t \in Threads : CheckEmbeddings(t)
    \/ \E t \in Threads : LockForEmbeddings(t)
    \/ \E t \in Threads : RecheckEmbeddings(t)
    \/ \E t \in Threads : EncodeTopics(t)
    \/ \E t \in Threads : ReturnLoaded(t)

SpecEmbedding == Init /\ [][NextEmbedding]_vars

\* C18: under any interleaving of concurrent first calls to the semantic
\* classifier, the embedding model is constructed at most once and the
\* reference-prompt embeddings are computed at most once per process (a
\* constructor or an encoding that raises creates nothing); after
\* initialisation they are never reassigned.
C18_LoadedAtMostOnce ==
    [][ /\ embedding'.constructed <= 1
        /\ embedding'.encoded <= 1
        /\ embedding._model # Unset => embedding'._model = embedding._model
        /\ embedding._topic_embeddings # Unset =>
               embedding'._topic_embeddings = embedding._topic_embeddings
      ]_vars

\* C18 witness: every thread found _model unset at line 45, all of them
\* returned, and the model and the embeddings were created once.
C18_Witness ==
    /\ embedding.contended = Threads
    /\ \A t \in Threads : embedding.pc[t] = "returned"
    /\ embedding.constructed = 1
    /\ embedding.encoded = 1
    /\ embedding._model # Unset
    /\ embedding._topic_embeddings # Unset

====
